---------------------------- MODULE Spec2Model ----------------------------
(***************************************************************************)
(* White-Paper-Toolkit: the radial ring layout of PDATFRingExport          *)
(* (segment builder, flip decision, orientation override, label fitting).  *)
(*                                                                         *)
(* Numbers.  The source computes in IEEE doubles; the model computes in    *)
(* fixed point.  An angle in radians is an integer number of ticks with    *)
(* PI ticks to the half turn (PI = 1260, so one degree is 7 ticks and the  *)
(* full turn divides exactly by every barrier count up to 7, and by twice  *)
(* it for the midpoints).  A value in degrees has DEG ticks per degree.    *)
(***************************************************************************)
EXTENDS Integers, Sequences, FiniteSets, TLC

VARIABLES
    barrierThemes,   \* input: data/barrier_themes.json, a list of [id, order]
    barriers,        \* input: data/barriers.json, a list of [id, themeId]
    pc,              \* position in the data useMemo / the render
    themeIds,        \* ids of orderedThemes(barrierThemes)
    ti,              \* index of the theme loop (1-based)
    angle,           \* the running angle cursor
    innerSegments,   \* one record per theme
    outerSegments,   \* one record per barrier of a known theme
    themeOrientationOverride, \* the Map: a function on the theme ids that were set
    oi,              \* index of the outer-label pass
    outerLabels,     \* per rendered outer label: [themeId, finalFlip, rot]
    probe,           \* the last label anchor placed: [angle, flip, point, isBottom]
    lkind,           \* label fitting: "outer" (barrier label) or "inner" (theme label)
    lseg,            \* label fitting: the segment, [a0, a1]
    ltext,           \* label fitting: the label text, as the lengths of its words
    lpc,             \* label fitting: position in the font search
    font,            \* label fitting: the loop variable font
    lines,           \* outer label: the lines of the last wrap
    guardDecs,       \* outer label: decrements made by the final guard loop
    fallback,        \* inner label: the fallback layout (NoLayout for null)
    innerLayout,     \* inner label: the layout returned (NoLayout before the return)
    path,            \* text-path router: the last call and the path it built
    appPc,           \* App.jsx: "mount" before the first render, then "ready"
    THEMES,          \* App.jsx: the memoized THEMES, as the list of theme ids
    epc,             \* export: position of the export operation in flight
    eop,             \* export: the options and environment of that operation
    urls,            \* export: every object URL created so far, "live" or "revoked"
    rasterUrl,       \* export: index in urls of the URL exportRaster created
    urlIn,           \* URL state: the query string given to parseURLParams
    urlRt,           \* URL state: its parse, the string generated from it, the re-parse
    search,          \* App state: the search text
    selectedTheme,   \* App state: the selected theme id, or Null
    selectedBarrier, \* App state: the selected barrier id, or Null
    selectedPersonas, \* App state: the list of selected persona ids
    location,        \* the query string of the browser URL (window.location.search)
    uiPc,            \* App: "initial" render, then "rerender", "effects" or "settled"
    pendingUpd,      \* App: the state updates queued by the URL-restore effect
    loadedUrl,       \* the query string the app was loaded with
    hist,            \* the last user event and the personas selected before it
    fIn,             \* filterResources: the arguments of the call
    fOut,            \* filterResources: the list returned
    resources,       \* chart: DATA_RESOURCES, each with its barriers and baseFilter(r)
    chartData,       \* chart: barrierValues, barrierData and themeData
    swPc,            \* service worker: "new", then "installed"
    precache,        \* service worker: the URLs in the cache CACHE_NAME
    runtime,         \* service worker: the URLs in the cache RUNTIME_CACHE
    online,          \* whether the network answers
    everFetched,     \* the URLs requested so far
    lastFetch        \* service worker: the last fetch event and its response

segVars == <<barrierThemes, barriers, pc, themeIds, ti, angle, innerSegments,
             outerSegments, themeOrientationOverride, oi, outerLabels>>

labelVars == <<lkind, lseg, ltext, lpc, font, lines, guardDecs, fallback, innerLayout>>

pathVars == <<path>>

appVars == <<appPc, THEMES>>

exportVars == <<epc, eop, urls, rasterUrl>>

urlVars == <<urlIn, urlRt>>

uiVars == <<search, selectedTheme, selectedBarrier, selectedPersonas, location, uiPc,
            pendingUpd, loadedUrl, hist>>

filterVars == <<fIn, fOut>>

chartVars == <<resources, chartData>>

swVars == <<swPc, precache, runtime, online, everFetched, lastFetch>>

moreVars == <<urlVars, uiVars, filterVars, chartVars, swVars>>

restVars == <<pathVars, appVars, exportVars, moreVars>>

vars == <<segVars, probe, labelVars, restVars>>

----------------------------------------------------------------------------
(* Bounds of the model *)

MaxThemes == 2
MaxBarriers == 4
MaxTurns == 2      \* probed angles lie within MaxTurns turns of 0, either side
MaxWords == 3      \* words in a label text
MaxUrls == 3       \* object URLs created by the exports of one run
MaxValueLen == 3   \* characters in a value of a query string

(* Numeric representation *)

PI == 1260
TURN == 2 * PI
DEG == PI \div 180

START_ANGLE == -(PI \div 2)
CLOCKWISE == TRUE

(* Props and radii of the component (second variant of the ring export) *)

width == 2480
height == 3508
ellipticalStretch == 1
cx == width \div 2
cy == height \div 2
innerR0 == 300
innerR1 == 560
outerR0 == 620
outerR1 == 1240

----------------------------------------------------------------------------
(* Helpers of the JavaScript semantics *)

\* JavaScript's % : the remainder has the sign of the dividend.
JsRem(a, b) == IF a >= 0 THEN a % b ELSE -((-a) % b)

Abs(x) == IF x < 0 THEN -x ELSE x

RECURSIVE SumSeq(_)
SumSeq(s) == IF s = <<>> THEN 0 ELSE Head(s) + SumSeq(Tail(s))

\* const v = e; then F(v): the value e is computed once and then used by F
Let(e, F(_)) == CHOOSE r \in {F(v) : v \in {e}} : TRUE

Max(a, b) == IF a >= b THEN a ELSE b
Min(a, b) == IF a <= b THEN a ELSE b

\* Array.prototype.filter is SelectSeq of Sequences.

\* Math.sin and Math.cos, times 1000, by Bhaskara's rational approximation
\* (exact zeros at the multiples of the half turn, the sign of the sine
\* everywhere else, absolute error below 0.002).
SinHalfTurn(x) == (4000 * x * (PI - x)) \div ((5 * PI * PI) \div 4 - x * (PI - x))

Sin1000(a) ==
    LET n == a % (2 * PI)
    IN  IF n <= PI THEN SinHalfTurn(n) ELSE -SinHalfTurn(n - PI)

Cos1000(a) == Sin1000(a + PI \div 2)

----------------------------------------------------------------------------
(* Module-level functions of the ring export *)

\* The order of a theme as data/barrier_themes.json holds it: the property is
\* absent (NoOrder), or it is the empty string of an empty CSV cell
\* (EmptyOrder), or it is the string of a positive number, kept as the number.
NoOrder == 0
EmptyOrder == -1
Orders == {EmptyOrder, NoOrder} \cup 1..2

\* parseInt(a.order || 999, 10): undefined and "" are falsy and count as 999,
\* the string of a number is parsed to the number
OrderKey(t) == IF t.order \in {NoOrder, EmptyOrder} THEN 999 ELSE t.order

\* App.jsx line 150, a.order ?? 999 : only undefined counts as 999; the
\* subtraction takes "" as the number 0
AppOrderKey(t) ==
    IF t.order = NoOrder THEN 999 ELSE IF t.order = EmptyOrder THEN 0 ELSE t.order

\* insertion of x into a list sorted by OrderKey, after every element that
\* does not compare greater (Array.prototype.sort is stable)
RECURSIVE InsertByOrder(_, _)
InsertByOrder(x, s) ==
    IF s = <<>> THEN <<x>>
    ELSE IF OrderKey(Head(s)) <= OrderKey(x)
         THEN <<Head(s)>> \o InsertByOrder(x, Tail(s))
         ELSE <<x>> \o s

RECURSIVE orderedThemes(_)
orderedThemes(list) ==
    IF list = <<>> THEN <<>>
    ELSE InsertByOrder(list[Len(list)], orderedThemes(SubSeq(list, 1, Len(list) - 1)))

\* App.jsx line 150: [...THEMES_RAW].sort((a, b) => (a.order ?? 999) - (b.order ?? 999))
RECURSIVE InsertByAppOrder(_, _)
InsertByAppOrder(x, s) ==
    IF s = <<>> THEN <<x>>
    ELSE IF AppOrderKey(Head(s)) <= AppOrderKey(x)
         THEN <<Head(s)>> \o InsertByAppOrder(x, Tail(s))
         ELSE <<x>> \o s

RECURSIVE sortedThemesOfApp(_)
sortedThemesOfApp(list) ==
    IF list = <<>> THEN <<>>
    ELSE InsertByAppOrder(list[Len(list)], sortedThemesOfApp(SubSeq(list, 1, Len(list) - 1)))

\* map[b.themeId]?.push(b): a barrier of an unknown theme is in no list
groupBarriersByTheme(bs, ids) ==
    [tid \in {ids[i] : i \in 1..Len(ids)} |->
        LET OfTheme(b) == b.themeId = tid IN SelectSeq(bs, OfTheme)]

\* coordinates in thousandths of a pixel
ellipsePoint(cx0, cy0, r, a, stretch) ==
    [x |-> cx0 * 1000 + r * Cos1000(a),
     y |-> cy0 * 1000 + (r * stretch) * Sin1000(a)]

midAngle(a0, a1) == (a0 + a1) \div 2

\* a plausible slip: a single remainder, which keeps the sign of the angle
normalizeDegreesOneRem(deg) == JsRem(deg, 360 * DEG)

normalizeDegrees(deg) == JsRem(JsRem(deg, 360 * DEG) + 360 * DEG, 360 * DEG)

shouldFlipAngle(angleRad) ==
    LET deg == normalizeDegrees((angleRad * 180 * DEG) \div PI)
    IN  deg > 90 * DEG /\ deg < 270 * DEG

totalBarriers == IF Len(barriers) = 0 THEN 1 ELSE Len(barriers)

perBarrierSpan == (TURN \div totalBarriers) * (IF CLOCKWISE THEN 1 ELSE -1)

----------------------------------------------------------------------------
(* The data useMemo: segment builder and orientation override *)

ThemeLists ==
    UNION {[1..n -> [id : 1..MaxThemes, order : Orders]] : n \in 0..MaxThemes}

BarrierLists ==
    UNION {[1..n -> [id : 1..MaxBarriers, themeId : 1..MaxThemes]] : n \in 0..MaxBarriers}

NoProbe == [angle |-> 0, flip |-> FALSE, point |-> [x |-> 0, y |-> 0], isBottom |-> FALSE]

\* null, for a layout
NoLayout == [fontSize |-> 0, lines |-> <<>>, radii |-> <<>>, lengths |-> <<>>]

\* no label is being fitted
LabelIdle ==
    /\ lkind = "none"
    /\ lseg = [a0 |-> 0, a1 |-> 0]
    /\ ltext = <<>>
    /\ lpc = "idle"
    /\ font = 0
    /\ lines = <<>>
    /\ guardDecs = 0
    /\ fallback = NoLayout
    /\ innerLayout = NoLayout

\* no text path has been built
NoPath == [a0 |-> 0, a1 |-> 0, r |-> 0, forced |-> "undefined", padDeg |-> 0,
           A0 |-> 0, A1 |-> 0, d |-> <<>>]

\* no export operation is in flight
NoExport ==
    [kind |-> "none", fmt |-> "png", background |-> "transparent", hasCtx |-> TRUE,
     outcome |-> "none", rejections |-> 0, downloads |-> 0, retry |-> FALSE]

\* null, for a string (a string is the list of its characters)
Null == <<"null">>

\* the filter state of a freshly mounted App
EmptyState == [search |-> <<>>, theme |-> Null, barrier |-> Null, personas |-> <<>>]

NoRoundTrip ==
    [done |-> FALSE, parsed |-> EmptyState, generated |-> <<>>, reparsed |-> EmptyState]

\* the last user event; for togglePersona the selection and the result list
\* before it, and before the toggle of the same persona that preceded it
NoHist ==
    [ev |-> "none", id |-> <<>>, personas |-> <<>>, filtered |-> <<>>,
     twice |-> FALSE, personas0 |-> <<>>, filtered0 |-> <<>>]

NoFilterCall == [resources |-> <<>>, searchQuery |-> <<>>, selectedPersonas |-> <<>>]

NoFilterResult == [done |-> FALSE, result |-> <<>>]

NoChart == [done |-> FALSE, barrierValues |-> <<>>, barrierData |-> <<>>, themeData |-> <<>>]

\* no response
NoResponse == [from |-> "none", url |-> "", status |-> 0]

\* the last fetch event: the request, the strategy that answered it, whether
\* the network fetch failed, what the runtime cache held when it was asked,
\* whether install had precached /index.html, whether the URL had been
\* fetched before, and the response
NoFetch ==
    [url |-> "", mode |-> "none", strategy |-> "none", networkFailed |-> FALSE,
     hadRequest |-> FALSE, hadIndex |-> FALSE, hadOffline |-> FALSE,
     precached |-> FALSE, fetchedBefore |-> FALSE, response |-> NoResponse]

UrlIdle == urlIn = <<>> /\ urlRt = NoRoundTrip

UiIdle ==
    /\ search = <<>>
    /\ selectedTheme = Null
    /\ selectedBarrier = Null
    /\ selectedPersonas = <<>>
    /\ location = <<>>
    /\ uiPc = "initial"
    /\ pendingUpd = EmptyState
    /\ loadedUrl = <<>>
    /\ hist = NoHist

FilterIdle == fIn = NoFilterCall /\ fOut = NoFilterResult

ChartIdle == resources = <<>> /\ chartData = NoChart

SwIdle ==
    /\ swPc = "new"
    /\ precache = {}
    /\ runtime = {}
    /\ online = TRUE
    /\ everFetched = {}
    /\ lastFetch = NoFetch

\* URL state, App state, filter, chart and service worker have not run
MoreIdle == UrlIdle /\ UiIdle /\ FilterIdle /\ ChartIdle /\ SwIdle

\* the router, the memoized THEMES and the exports have not run
RouterIdle ==
    /\ path = NoPath
    /\ appPc = "mount"
    /\ THEMES = <<>>
    /\ epc = "idle"
    /\ eop = NoExport
    /\ urls = <<>>
    /\ rasterUrl = 0

\* no dataset, no segment, no label
RingIdle ==
    /\ barrierThemes = <<>>
    /\ barriers = <<>>
    /\ pc = "done"
    /\ themeIds = <<>>
    /\ ti = 1
    /\ angle = 0
    /\ innerSegments = <<>>
    /\ outerSegments = <<>>
    /\ themeOrientationOverride = <<>>
    /\ oi = 1
    /\ outerLabels = <<>>
    /\ probe = NoProbe
    /\ LabelIdle

\* the router, the App and the exports have not run
RestIdle == MoreIdle /\ RouterIdle

\* The data files: theme ids and barrier ids are the positions in their lists.
Init ==
    /\ barrierThemes \in {l \in ThemeLists : \A i \in 1..Len(l) : l[i].id = i}
    /\ barriers \in {l \in BarrierLists : \A i \in 1..Len(l) : l[i].id = i}
    /\ pc = "start"
    /\ themeIds = <<>>
    /\ ti = 1
    /\ angle = 0
    /\ innerSegments = <<>>
    /\ outerSegments = <<>>
    /\ themeOrientationOverride = <<>>
    /\ oi = 1
    /\ outerLabels = <<>>
    /\ probe = NoProbe
    /\ LabelIdle
    /\ RestIdle

\* lines 540-552: order the themes, start the cursor
Start ==
    /\ pc = "start"
    /\ themeIds' = [i \in 1..Len(barrierThemes) |-> orderedThemes(barrierThemes)[i].id]
    /\ angle' = START_ANGLE
    /\ ti' = 1
    /\ pc' = "themes"
    /\ UNCHANGED <<barrierThemes, barriers, innerSegments, outerSegments,
                   themeOrientationOverride, oi, outerLabels, probe, labelVars, restVars>>

\* the outer segments of one theme, from the cursor value a
OuterOfTheme(tid, blist, a, a0T, a1T, themeOrder) ==
    [k \in 1..Len(blist) |->
        LET a0 == a + (k - 1) * perBarrierSpan
            a1 == a0 + perBarrierSpan
            mid == midAngle(a0, a1)
        IN  [barrierId |-> blist[k].id, themeId |-> tid, a0 |-> a0, a1 |-> a1,
             tA0 |-> a0T, tA1 |-> a1T, themeOrder |-> themeOrder,
             barrierOrder |-> k, mid |-> mid, baseFlip |-> shouldFlipAngle(mid)]]

\* a plausible slip: every theme gets an equal share of the circle
themeSpanEqualShare(blist) == TURN \div Max(1, Len(themeIds))

\* a plausible slip: a theme without barriers is given the wedge of one barrier
themeSpanMinOne(blist) == perBarrierSpan * Max(1, Len(blist))

\* const themeSpan = perBarrierSpan * blist.length
themeSpan(blist) == perBarrierSpan * Len(blist)

\* lines 554-591: one iteration of the theme loop, its barrier loop included
BuildTheme ==
    /\ pc = "themes"
    /\ ti <= Len(themeIds)
    /\ LET tid == themeIds[ti]
           blist == groupBarriersByTheme(barriers, themeIds)[tid]
           a0T == angle
           a1T == angle + themeSpan(blist)
       IN  /\ innerSegments' = Append(innerSegments,
                  [themeId |-> tid, a0 |-> a0T, a1 |-> a1T,
                   count |-> Len(blist), themeOrder |-> ti])
           /\ outerSegments' = outerSegments \o OuterOfTheme(tid, blist, angle, a0T, a1T, ti)
           /\ angle' = angle + Len(blist) * perBarrierSpan
    /\ ti' = ti + 1
    /\ UNCHANGED <<barrierThemes, barriers, pc, themeIds,
                   themeOrientationOverride, oi, outerLabels, probe, labelVars, restVars>>

\* a plausible slip: the label pass starts right after the theme loop, the
\* orientation pass is skipped
EndThemesSkipOrient ==
    /\ pc = "themes"
    /\ ti > Len(themeIds)
    /\ pc' = "labels"
    /\ oi' = 1
    /\ UNCHANGED <<barrierThemes, barriers, themeIds, ti, angle, innerSegments,
                   outerSegments, themeOrientationOverride, outerLabels, probe,
                   labelVars, restVars>>

\* the theme loop is exhausted: go on to the orientation pass
EndThemes ==
    /\ pc = "themes"
    /\ ti > Len(themeIds)
    /\ pc' = "orient"
    /\ ti' = 1
    /\ UNCHANGED <<barrierThemes, barriers, themeIds, angle, innerSegments,
                   outerSegments, themeOrientationOverride, oi, outerLabels, probe, labelVars, restVars>>

segsOfTheme(tid) == LET OfTheme(seg) == seg.themeId = tid IN SelectSeq(outerSegments, OfTheme)

flippedCount(segs) == Cardinality({i \in 1..Len(segs) : segs[i].baseFlip})

\* a plausible slip: a strict majority, ties unflipped
majorityStrict(segs) == 2 * flippedCount(segs) > Len(segs)

\* flippedCount >= (segs.length / 2)
majority(segs) == 2 * flippedCount(segs) >= Len(segs)

allSame(segs) == \A i \in 1..Len(segs) : segs[i].baseFlip = segs[1].baseFlip

\* Map.prototype.set
MapSet(m, k, v) == [x \in (DOMAIN m) \cup {k} |-> IF x = k THEN v ELSE m[x]]

\* lines 593-604: one iteration of the override loop
OrientTheme ==
    /\ pc = "orient"
    /\ ti <= Len(themeIds)
    /\ LET tid == themeIds[ti]
           segs == segsOfTheme(tid)
       IN  themeOrientationOverride' =
             IF Len(segs) = 0 THEN themeOrientationOverride
             ELSE IF ~allSame(segs)
                  THEN MapSet(themeOrientationOverride, tid, majority(segs))
                  ELSE themeOrientationOverride
    /\ ti' = ti + 1
    /\ UNCHANGED <<barrierThemes, barriers, pc, themeIds, angle, innerSegments,
                   outerSegments, oi, outerLabels, probe, labelVars, restVars>>

EndOrient ==
    /\ pc = "orient"
    /\ ti > Len(themeIds)
    /\ pc' = "labels"
    /\ oi' = 1
    /\ UNCHANGED <<barrierThemes, barriers, themeIds, ti, angle, innerSegments,
                   outerSegments, themeOrientationOverride, outerLabels, probe, labelVars, restVars>>

\* a plausible slip: the override is not consulted
finalFlipBaseOnly(seg) == seg.baseFlip

\* const finalFlip = override != null ? override : seg.baseFlip
finalFlip(seg) ==
    IF seg.themeId \in DOMAIN themeOrientationOverride
    THEN themeOrientationOverride[seg.themeId]
    ELSE seg.baseFlip

uprightRotationDegrees(angleRad, flip) ==
    LET deg == (angleRad * 180 * DEG) \div PI
    IN  normalizeDegrees(IF flip THEN deg + 180 * DEG ELSE deg)

\* lines 848-865: orientation of one outer label
RenderOuterLabel ==
    /\ pc = "labels"
    /\ oi <= Len(outerSegments)
    /\ LET seg == outerSegments[oi]
       IN  outerLabels' = Append(outerLabels,
               [themeId |-> seg.themeId, finalFlip |-> finalFlip(seg),
                rot |-> uprightRotationDegrees(seg.mid, finalFlip(seg))])
    /\ oi' = oi + 1
    /\ UNCHANGED <<barrierThemes, barriers, pc, themeIds, ti, angle, innerSegments,
                   outerSegments, themeOrientationOverride, probe, labelVars, restVars>>

EndLabels ==
    /\ pc = "labels"
    /\ oi > Len(outerSegments)
    /\ pc' = "done"
    /\ UNCHANGED <<barrierThemes, barriers, themeIds, ti, angle, innerSegments,
                   outerSegments, themeOrientationOverride, oi, outerLabels, probe, labelVars, restVars>>

\* App.jsx line 150: the first render of the App memoizes THEMES
AppSortThemes ==
    /\ appPc = "mount"
    /\ THEMES' = [i \in 1..Len(barrierThemes) |-> sortedThemesOfApp(barrierThemes)[i].id]
    /\ appPc' = "ready"
    /\ UNCHANGED <<segVars, probe, labelVars, pathVars, exportVars, moreVars>>

Next ==
    \/ Start
    \/ AppSortThemes
    \/ BuildTheme
    \/ EndThemes
    \/ OrientTheme
    \/ EndOrient
    \/ RenderOuterLabel
    \/ EndLabels

Spec == Init /\ [][Next]_vars

----------------------------------------------------------------------------
(* The anchor of a label: flip decision and point on the ring at an angle *)

rLabel == outerR0 + (outerR1 - outerR0) \div 2

ProbeAngles == (-(MaxTurns * TURN))..(MaxTurns * TURN)

\* the lower-half test of buildTextPathOriented (line 645)
isBottomAt(r, mid) == ellipsePoint(cx, cy, r, mid, ellipticalStretch).y > cy * 1000

InitProbe ==
    /\ barrierThemes = <<>>
    /\ barriers = <<>>
    /\ pc = "done"
    /\ themeIds = <<>>
    /\ ti = 1
    /\ angle = 0
    /\ innerSegments = <<>>
    /\ outerSegments = <<>>
    /\ themeOrientationOverride = <<>>
    /\ oi = 1
    /\ outerLabels = <<>>
    /\ probe = NoProbe
    /\ LabelIdle
    /\ RestIdle

\* lines 859-865: the anchor of a label at angle mid and its flip decision
PlaceAtAngle ==
    /\ probe = NoProbe
    /\ \E mid \in ProbeAngles \ {0} :
         probe' = [angle |-> mid,
                   flip |-> shouldFlipAngle(mid),
                   point |-> ellipsePoint(cx, cy, rLabel, mid, ellipticalStretch),
                   isBottom |-> isBottomAt(rLabel, mid)]
    /\ UNCHANGED <<segVars, labelVars, restVars>>

NextProbe == PlaceAtAngle

SpecProbe == InitProbe /\ [][NextProbe]_vars

----------------------------------------------------------------------------
(* Label fitting: wrapToLines, the outer font search with its final guard    *)
(* loop, and the inner font search.  Lengths in pixels are in thousandths,  *)
(* radii in hundredths.  A text is the list of the lengths of its words; a  *)
(* line is the list of the lengths of the words on it.                      *)

TEXT_PAD_DEG == 2
INNER_TEXT_PAD_DEG == 1
INNER_FONT_MAX == 44
INNER_FONT_MIN == 14
MAX_INNER_LINES == 3
innerMargin == 22
OUTER_FONT_START == 50
minFont == 12
guardFloor == 10
maxLines == 5
outerMargin == 6

\* text.trim().split(/\s+/): the empty text splits into one empty word
Words(text) == IF text = <<>> THEN <<0>> ELSE text

\* s.length of a line: the words and the single spaces between them
LineLen(line) == IF line = <<>> THEN 0 ELSE SumSeq(line) + Len(line) - 1

\* line ? line + " " + w : w
JoinWord(line, w) ==
    IF LineLen(line) = 0 THEN (IF w = 0 THEN <<>> ELSE <<w>>) ELSE Append(line, w)

\* One pass of the for loop of wrapToLines over the word w, on the loop state
\* st = [lines, line, broke]; charMilli is charPx * 1000.
WrapStep(st, w, maxWidth1000, maxL, charMilli) ==
    LET test == JoinWord(st.line, w)
    IN  IF LineLen(test) * charMilli <= maxWidth1000 \/ LineLen(st.line) = 0
        THEN [st EXCEPT !.line = test]
        ELSE [lines |-> Append(st.lines, st.line),
              line |-> IF w = 0 THEN <<>> ELSE <<w>>,
              broke |-> Len(st.lines) + 1 = maxL]

\* the for loop from word i on, until the words run out or the loop breaks
RECURSIVE WrapLoop(_, _, _, _, _, _)
WrapLoop(words, i, st, maxWidth1000, maxL, charMilli) ==
    IF i > Len(words) \/ st.broke THEN st
    ELSE Let(WrapStep(st, words[i], maxWidth1000, maxL, charMilli),
             LAMBDA nx : WrapLoop(words, i + 1, nx, maxWidth1000, maxL, charMilli))

\* a plausible slip: the last line is pushed without the test against
\* maxLines, and the final slice is left out
wrapToLinesUnclipped(text, maxWidth1000, maxL, fontPx) ==
    Let(WrapLoop(Words(text), 1, [lines |-> <<>>, line |-> <<>>, broke |-> FALSE],
                 maxWidth1000, maxL, fontPx * 600),
        LAMBDA r : IF LineLen(r.line) > 0 THEN Append(r.lines, r.line) ELSE r.lines)

\* lines 695-714; charPx = fontPx * 0.6
wrapToLines(text, maxWidth1000, maxL, fontPx) ==
    Let(WrapLoop(Words(text), 1, [lines |-> <<>>, line |-> <<>>, broke |-> FALSE],
                 maxWidth1000, maxL, fontPx * 600),
        LAMBDA r :
            IF Len(r.lines) < maxL /\ LineLen(r.line) > 0
            THEN SubSeq(Append(r.lines, r.line), 1, Min(maxL, Len(r.lines) + 1))
            ELSE SubSeq(r.lines, 1, Min(maxL, Len(r.lines))))

\* lines 672-692, in thousandths of a pixel, for a radius in hundredths.
\* The sampled polyline on the circle (ellipticalStretch = 1) is taken at its
\* limit, radius times the padded angle; pi is 355/113.
approximateTextPathLength(a0, a1, r100, padDeg) ==
    LET pad == padDeg * DEG
        s == Min(a0, a1)
        e == Max(a0, a1)
        dir == IF a1 - a0 >= 0 THEN 1 ELSE -1
        A0 == IF dir > 0 THEN s + pad ELSE e - pad
        A1 == IF dir > 0 THEN e - pad ELSE s + pad
    IN  (((r100 * Abs(A1 - A0)) \div (PI \div 10)) * 355) \div 113

(* ---- outer (barrier) label, lines 848-909 ---- *)

\* Math.max(0.3, Math.min(TEXT_PAD_DEG, spanDeg * 0.08)), in ticks
localPad(seg) ==
    Max((3 * DEG) \div 10, Min(TEXT_PAD_DEG * DEG, (Abs(seg.a1 - seg.a0) * 8) \div 100))

\* Math.max(0.0001, Math.abs(a1p - a0p)); 0.0001 rad is below one tick
spanPadded(seg) ==
    LET pad == localPad(seg)
        a0p == IF seg.a0 < seg.a1 THEN seg.a0 + pad ELSE seg.a0 - pad
        a1p == IF seg.a0 < seg.a1 THEN seg.a1 - pad ELSE seg.a1 + pad
    IN  Max(0, Abs(a1p - a0p))

\* chord = 4 * rLabel * sin(spanPadded / 2); avail = max(60, chord * 1.4)
avail1000(seg) ==
    LET chord1000 == 4 * rLabel * Sin1000(spanPadded(seg) \div 2)
    IN  Max(60 * 1000, (chord1000 * 14) \div 10)

availHalf == Max(8, Min(rLabel - outerR0, outerR1 - rLabel) - outerMargin)

\* Math.round(font * 1.03)
outerLineGap(f) == (f * 103 + 50) \div 100

\* lines.every(l => l.length * charPx <= avail * 1.02), charPx = font * 0.55
outerWidthsOk(ls, f, avail) ==
    \A i \in 1..Len(ls) : LineLen(ls[i]) * f * 550 * 100 <= avail * 102

\* blockHalf <= availHalf, with totalHeight = (n - 1) * lineGap + font
outerRadialOk(n, f) == (n - 1) * outerLineGap(f) + f <= 2 * availHalf

outerWrap(f) == wrapToLines(ltext, avail1000(lseg), maxLines, f)

outerFits(f) ==
    /\ outerWidthsOk(outerWrap(f), f, avail1000(lseg))
    /\ outerRadialOk(Len(outerWrap(f)), f)

\* a plausible slip: the decrement is lost, the loop variable never moves
fontStuck(f) == f

\* font -= 1
fontDecrement(f) == f - 1

\* lines 884-897: one pass of the search loop
OuterSearchStep ==
    /\ lpc = "outerSearch"
    /\ font >= minFont
    /\ \E avail \in {avail1000(lseg)} :
       \E wrapped \in {wrapToLines(ltext, avail, maxLines, font)} :
          /\ lines' = wrapped
          /\ IF outerWidthsOk(wrapped, font, avail) /\ outerRadialOk(Len(wrapped), font)
             THEN /\ lpc' = "outerGuard"
                  /\ font' = font
             ELSE /\ lpc' = lpc
                  /\ font' = fontDecrement(font)
    /\ UNCHANGED <<restVars, segVars, probe, lkind, lseg, ltext, guardDecs, fallback, innerLayout>>

\* the loop condition font >= minFont fails
OuterSearchExit ==
    /\ lpc = "outerSearch"
    /\ font < minFont
    /\ lpc' = "outerGuard"
    /\ UNCHANGED <<restVars, segVars, probe, lkind, lseg, ltext, font, lines, guardDecs,
                   fallback, innerLayout>>

\* lines 901-909: one pass of the final guard loop (while n > 0)
OuterGuardStep ==
    /\ lpc = "outerGuard"
    /\ IF Len(lines) = 0
          \/ (Len(lines) - 1) * outerLineGap(font) + font <= 2 * availHalf
          \/ font <= guardFloor
       THEN /\ lpc' = "done"
            /\ UNCHANGED <<font, guardDecs>>
       ELSE /\ font' = fontDecrement(font)
            /\ guardDecs' = guardDecs + 1
            /\ lpc' = lpc
    /\ UNCHANGED <<restVars, segVars, probe, lkind, lseg, ltext, lines, fallback, innerLayout>>

(* ---- inner (theme) label, lines 727-770 ---- *)

baseRadius100 == innerR0 * 100 + 55 * (innerR1 - innerR0)

\* a plausible slip: the radius is clamped into the band of the outer ring
clampRadiusOuterBand(r100) ==
    Min((outerR1 - innerMargin) * 100, Max((outerR0 + innerMargin) * 100, r100))

\* Math.min(innerR1 - margin, Math.max(innerR0 + margin, r))
clampRadius(r100) ==
    Min((innerR1 - innerMargin) * 100, Max((innerR0 + innerMargin) * 100, r100))

arcLength(r100) == approximateTextPathLength(lseg.a0, lseg.a1, r100, INNER_TEXT_PAD_DEG)

\* wrapToLines(...) , then  if (!linesCandidate.length) linesCandidate = [labelText || ""]
linesCandidate(f) ==
    LET ls == wrapToLines(ltext, (arcLength(baseRadius100) * 94) \div 100, MAX_INNER_LINES, f)
    IN  IF Len(ls) = 0 THEN <<ltext>> ELSE ls

\* font * (n > 1 ? 1.06 : 1.0), in hundredths
innerLineGap100(f, n) == IF n > 1 THEN f * 106 ELSE f * 100

\* baseRadius + ((n - 1) / 2 - idx) * lineGap, clamped; idx = k - 1
radiiClamped(n, f) ==
    [k \in 1..n |->
        clampRadius(baseRadius100 + ((n - 1 - 2 * (k - 1)) * innerLineGap100(f, n)) \div 2)]

\* the layout object of one pass: { fontSize, lines, radii, lengths }
innerCandidate(f) ==
    Let(linesCandidate(f), LAMBDA ls :
        Let(radiiClamped(Len(ls), f), LAMBDA rs :
            [fontSize |-> f, lines |-> ls, radii |-> rs,
             lengths |-> [k \in 1..Len(rs) |-> arcLength(rs[k])]]))

\* consecutive clamped radii at least font * 0.6 apart
spacingOk(layout) ==
    \/ Len(layout.radii) <= 1
    \/ \A k \in 2..Len(layout.radii) :
          Abs(layout.radii[k] - layout.radii[k - 1]) >= layout.fontSize * 60

\* approxWidth(line, font) <= usableArc * 0.92, usableArc = arcLength(radius)
widthsOk(layout) ==
    \A k \in 1..Len(layout.lines) :
        LineLen(layout.lines[k]) * layout.fontSize * 600 * 100
            <= arcLength(layout.radii[k]) * 92

\* a plausible slip: the fallback is overwritten by every candidate
keepLastFallback(fb, layout) == layout

\* if (!fallback) fallback = layout
keepFirstFallback(fb, layout) == IF fb = NoLayout THEN layout ELSE fb

\* lines 741-765: one pass of the for loop
InnerSearchStep ==
    /\ lpc = "innerSearch"
    /\ font >= INNER_FONT_MIN
    /\ \E layout \in {innerCandidate(font)} :
          /\ fallback' = keepFirstFallback(fallback, layout)
          /\ IF widthsOk(layout) /\ spacingOk(layout)
             THEN /\ innerLayout' = layout
                  /\ lpc' = "done"
                  /\ font' = font
             ELSE /\ font' = fontDecrement(font)
                  /\ UNCHANGED <<innerLayout, lpc>>
    /\ UNCHANGED <<restVars, segVars, probe, lkind, lseg, ltext, lines, guardDecs>>

\* lines 767-769: the loop has run out
InnerSearchExit ==
    /\ lpc = "innerSearch"
    /\ font < INNER_FONT_MIN
    /\ innerLayout' =
          IF fallback # NoLayout THEN fallback
          ELSE [fontSize |-> 16, lines |-> <<ltext>>,
                radii |-> <<clampRadius(baseRadius100)>>,
                lengths |-> <<arcLength(clampRadius(baseRadius100))>>]
    /\ lpc' = "done"
    /\ UNCHANGED <<restVars, segVars, probe, lkind, lseg, ltext, font, lines, guardDecs, fallback>>

(* ---- what the render draws for a fitted label ---- *)

\* lines 809-829 of the ring export: if (!layout) return null; otherwise one
\* <text> per line of the layout
innerLabelRendered ==
    /\ lkind = "inner"
    /\ lpc = "done"
    /\ innerLayout # NoLayout
    /\ Len(innerLayout.lines) > 0

\* lines 911-928 of the ring export: one <text> per fitted line
outerLabelRendered ==
    /\ lkind = "outer"
    /\ lpc = "done"
    /\ Len(lines) > 0

\* App.jsx line 385 (renderOuterThemeLabel): if (rawAngle < 12) return null
MIN_LABEL_DEG == 12

\* App.jsx lines 382-384: the span of the label after padding, in ticks
rawAngle(startAngle, endAngle, padDeg) ==
    LET pad == padDeg * DEG
        sA == IF startAngle > endAngle THEN startAngle - pad ELSE startAngle + pad
        eA == IF startAngle > endAngle THEN endAngle + pad ELSE endAngle - pad
    IN  Abs(eA - sA)

(* ---- the segments and texts a label is fitted for ---- *)

WordLens == {3, 12}

\* names with more words than a label has lines
LongTexts == {[i \in 1..n |-> w] : n \in {MaxWords + 3, MaxWords + 5}, w \in WordLens}

Texts == UNION {[1..n -> WordLens] : n \in 0..MaxWords} \cup LongTexts

\* spans of an outer segment: the full turn divided by a barrier count
OuterSpanSet == {TURN \div n : n \in {1, 4, 14, 180, 1260}}

\* spans of an inner segment: a whole number of barrier spans, none included
InnerSpanSet == {0, 14, 180, 630, TURN}

InitLabel ==
    /\ barrierThemes = <<>>
    /\ barriers = <<>>
    /\ pc = "done"
    /\ themeIds = <<>>
    /\ ti = 1
    /\ angle = 0
    /\ innerSegments = <<>>
    /\ outerSegments = <<>>
    /\ themeOrientationOverride = <<>>
    /\ oi = 1
    /\ outerLabels = <<>>
    /\ probe = NoProbe
    /\ lkind \in {"outer", "inner"}
    /\ \E sp \in (IF lkind = "outer" THEN OuterSpanSet ELSE InnerSpanSet) :
          lseg = [a0 |-> START_ANGLE, a1 |-> START_ANGLE + sp]
    /\ ltext \in Texts
    /\ lpc = IF lkind = "outer" THEN "outerSearch" ELSE "innerSearch"
    /\ font = IF lkind = "outer" THEN OUTER_FONT_START ELSE INNER_FONT_MAX
    /\ lines = <<>>
    /\ guardDecs = 0
    /\ fallback = NoLayout
    /\ innerLayout = NoLayout
    /\ RestIdle

NextLabel ==
    \/ OuterSearchStep
    \/ OuterSearchExit
    \/ OuterGuardStep
    \/ InnerSearchStep
    \/ InnerSearchExit

\* the render is synchronous: a loop that can step does step
SpecLabel == InitLabel /\ [][NextLabel]_vars /\ WF_vars(NextLabel)

----------------------------------------------------------------------------
(* The text-path router: buildTextPathOriented and its padded variant.  A   *)
(* path is the list of its sample points, each with the angle it was taken  *)
(* at; isBottomForced is "undefined", "true" or "false".                    *)

CeilDiv(a, b) == (a + b - 1) \div b

\* Math.max(10, Math.ceil(Math.abs(end - start) / (6 * (Math.PI / 180))))
pathSteps(start, end) == Max(10, CeilDiv(Abs(end - start), 6 * DEG))

\* a plausible slip: the forced orientation is not consulted
isBottomIgnoringForced(r, mid, forced) == isBottomAt(r, mid)

\* typeof isBottomForced === 'boolean' ? isBottomForced : (ellipsePoint(...)[1] > cy)
isBottomEffective(r, mid, forced) ==
    IF forced \in {"true", "false"} THEN forced = "true" ELSE isBottomAt(r, mid)

\* lines 643-657
buildTextPathOriented(a0, a1, r, forced) ==
    LET mid == midAngle(a0, a1)
        isBottom == isBottomEffective(r, mid, forced)
        start == IF isBottom THEN a1 ELSE a0
        end == IF isBottom THEN a0 ELSE a1
        steps == pathSteps(start, end)
    IN  [i \in 1..(steps + 1) |->
            LET a == start + ((end - start) * (i - 1)) \div steps
            IN  [a |-> a, p |-> ellipsePoint(cx, cy, r, a, ellipticalStretch)]]

\* lines 660-668: the range [A0, A1] handed to buildTextPathOriented
paddedRange(a0, a1, padDeg) ==
    LET pad == padDeg * DEG
        s == Min(a0, a1)
        e == Max(a0, a1)
        sP == s + pad
        eP == e - pad
        dir == IF a1 - a0 >= 0 THEN 1 ELSE -1
    IN  [A0 |-> IF dir > 0 THEN sP ELSE eP, A1 |-> IF dir > 0 THEN eP ELSE sP]

\* lines 659-670
buildTextPathOrientedPadded(a0, a1, r, forced, padDeg) ==
    buildTextPathOriented(paddedRange(a0, a1, padDeg).A0,
                          paddedRange(a0, a1, padDeg).A1, r, forced)

\* start angles: every eighth of a turn within MaxTurns turns of 0
PathStarts == {k * (PI \div 4) : k \in (-(4 * MaxTurns))..(4 * MaxTurns)}

\* spans of both windings, from none to the full turn (14 ticks = 2 degrees)
PathSpans ==
    {0} \cup UNION {{sp, -sp} : sp \in {2, 14, 20, 28, 180, 630, PI, TURN}}

PadDegs == {0, INNER_TEXT_PAD_DEG, TEXT_PAD_DEG}

ForcedValues == {"undefined", "true", "false"}

\* the radii the render builds text paths at (lines 784 and 790)
PathRadii == {innerR0 + (55 * (innerR1 - innerR0)) \div 100, (outerR0 + outerR1) \div 2}

InitPath == InitProbe

\* one call of buildTextPathOrientedPadded
BuildTextPath ==
    /\ path = NoPath
    /\ \E a0 \in PathStarts, sp \in PathSpans, r \in PathRadii,
          forced \in ForcedValues, padDeg \in PadDegs :
          path' = [a0 |-> a0, a1 |-> a0 + sp, r |-> r, forced |-> forced,
                   padDeg |-> padDeg,
                   A0 |-> paddedRange(a0, a0 + sp, padDeg).A0,
                   A1 |-> paddedRange(a0, a0 + sp, padDeg).A1,
                   d |-> buildTextPathOrientedPadded(a0, a0 + sp, r, forced, padDeg)]
    /\ UNCHANGED <<segVars, probe, labelVars, appVars, exportVars, moreVars>>

NextPath == BuildTextPath

SpecPath == InitPath /\ [][NextPath]_vars

----------------------------------------------------------------------------
(* The exports: downloadBlob, downloadCurrentSvg / exportSvg and the async   *)
(* exportRaster.  urls lists every object URL created, each "live" or        *)
(* "revoked".  What the browser does (the image loads or fails, the canvas   *)
(* has a 2d context or not, toBlob yields a blob or null, the click on the   *)
(* download link throws or not) is chosen by the environment.                *)

\* URL.revokeObjectURL(url), for the URL at index i
Revoke(us, i) == [us EXCEPT ![i] = "revoked"]

\* lines 241-250: createObjectURL, the link and its click, revokeObjectURL;
\* an exception of lines 243-248 leaves the function before the revocation
downloadBlob(us, throws) == Append(us, IF throws THEN "live" ELSE "revoked")

\* lines 252-261, if (!svgNode) return: nothing is created
ExportWithoutNode ==
    /\ epc \in {"idle", "done", "failed", "hung"}
    /\ UNCHANGED vars

\* lines 252-261: downloadCurrentSvg / exportSvg, synchronous
ExportSvg ==
    /\ epc \in {"idle", "done", "failed", "hung"}
    /\ Len(urls) < MaxUrls
    /\ \E throws \in BOOLEAN :
          /\ urls' = downloadBlob(urls, throws)
          /\ eop' = [kind |-> "svg", fmt |-> "png", background |-> "transparent",
                     hasCtx |-> TRUE,
                     outcome |-> IF throws THEN "downloadThrew" ELSE "downloaded",
                     rejections |-> 0, downloads |-> 1, retry |-> FALSE]
    /\ UNCHANGED <<epc, rasterUrl, segVars, probe, labelVars, pathVars, appVars,
                   moreVars>>

\* the raster export that came before ended with a rejection (or this one is
\* already a retry)
FailedBefore == eop.kind = "raster" /\ (epc = "failed" \/ eop.retry)

\* lines 263-290: exportRaster up to its first await.  A missing 2d context
\* throws at ctx.fillStyle when a fill is asked for; the finally block revokes.
ExportRasterStart ==
    /\ epc \in {"idle", "done", "failed", "hung"}
    /\ Len(urls) + 2 <= MaxUrls
    /\ \E fmt \in {"png", "jpg"}, background \in {"transparent", "#ffffff"},
          hasCtx \in BOOLEAN :
          LET fills == fmt = "jpg" \/ background # "transparent"
              url == Len(urls) + 1
          IN  /\ rasterUrl' = url
              /\ IF fills /\ ~hasCtx
                 THEN /\ urls' = Revoke(Append(urls, "live"), url)
                      /\ epc' = "failed"
                      /\ eop' = [kind |-> "raster", fmt |-> fmt, background |-> background,
                                 hasCtx |-> hasCtx, outcome |-> "noContext",
                                 rejections |-> 1, downloads |-> 0,
                                 retry |-> FailedBefore]
                 ELSE /\ urls' = Append(urls, "live")
                      /\ epc' = "loading"
                      /\ eop' = [kind |-> "raster", fmt |-> fmt, background |-> background,
                                 hasCtx |-> hasCtx, outcome |-> "none",
                                 rejections |-> 0, downloads |-> 0,
                                 retry |-> FailedBefore]
    /\ UNCHANGED <<segVars, probe, labelVars, pathVars, appVars,
                   moreVars>>

\* a plausible slip: the failed image load is swallowed (a catch that only
\* logs), the promise of exportRaster resolves
ImageErrorSwallowed ==
    /\ epc = "loading"
    /\ urls' = Revoke(urls, rasterUrl)
    /\ epc' = "done"
    /\ eop' = [eop EXCEPT !.outcome = "imageError"]
    /\ UNCHANGED <<rasterUrl, segVars, probe, labelVars, pathVars, appVars,
                   moreVars>>

\* lines 292-296, img.onerror = reject: the await throws, the finally revokes
ImageError ==
    /\ epc = "loading"
    /\ urls' = Revoke(urls, rasterUrl)
    /\ epc' = "failed"
    /\ eop' = [eop EXCEPT !.outcome = "imageError", !.rejections = @ + 1]
    /\ UNCHANGED <<rasterUrl, segVars, probe, labelVars, pathVars, appVars,
                   moreVars>>

\* lines 292-303, img.onload: drawImage (a TypeError without a context), then
\* canvas.toBlob is called (a tainted canvas throws inside the executor, which
\* rejects the promise)
ImageLoad ==
    /\ epc = "loading"
    /\ \E tainted \in BOOLEAN :
          IF ~eop.hasCtx \/ tainted
          THEN /\ urls' = Revoke(urls, rasterUrl)
               /\ epc' = "failed"
               /\ eop' = [eop EXCEPT !.outcome =
                             IF ~eop.hasCtx THEN "noContext" ELSE "tainted",
                                       !.rejections = @ + 1]
          ELSE /\ epc' = "toBlob"
               /\ UNCHANGED <<urls, eop>>
    /\ UNCHANGED <<rasterUrl, segVars, probe, labelVars, pathVars, appVars,
                   moreVars>>

\* lines 303-316, the callback of canvas.toBlob.  A null blob rejects; else
\* downloadBlob runs inside the callback and resolve() follows it.  An
\* exception of downloadBlob leaves the callback before resolve(): it is not
\* thrown into the promise, which stays pending, and the finally never runs.
ToBlobCallback ==
    /\ epc = "toBlob"
    /\ \E out \in {"null", "blob"}, throws \in BOOLEAN :
          IF out = "null"
          THEN /\ urls' = Revoke(urls, rasterUrl)
               /\ epc' = "failed"
               /\ eop' = [eop EXCEPT !.outcome = "toBlobNull", !.rejections = @ + 1]
          ELSE IF throws
               THEN /\ urls' = downloadBlob(urls, TRUE)
                    /\ epc' = "hung"
                    /\ eop' = [eop EXCEPT !.outcome = "downloadThrew", !.downloads = @ + 1]
               ELSE /\ urls' = Revoke(downloadBlob(urls, FALSE), rasterUrl)
                    /\ epc' = "done"
                    /\ eop' = [eop EXCEPT !.outcome = "downloaded", !.downloads = @ + 1]
    /\ UNCHANGED <<rasterUrl, segVars, probe, labelVars, pathVars, appVars,
                   moreVars>>

InitExport == InitProbe

NextExport ==
    \/ ExportWithoutNode
    \/ ExportSvg
    \/ ExportRasterStart
    \/ ImageError
    \/ ImageLoad
    \/ ToBlobCallback

\* the browser settles the image load and runs the toBlob callback
SpecExport == InitExport /\ [][NextExport]_vars /\ WF_vars(NextExport)

----------------------------------------------------------------------------
(* URL state: parseURLParams and generateURLParams (utils/urlState.js).  A   *)
(* string is the list of its characters.  A query string is the list of its  *)
(* key=value pairs, each value as written in the URL: a list of tokens, a    *)
(* token being a plain character, "+" or a percent escape.                   *)

UrlKeys == {"q", "theme", "barrier", "personas"}

UrlTokens == {"a", " ", ",", "+", "%2C", "%20", "%2B"}

\* URLSearchParams, parsing: "+" is a space, a percent escape is its character
decodeToken(t) ==
    CASE t = "+" -> " "
      [] t = "%20" -> " "
      [] t = "%2C" -> ","
      [] t = "%2B" -> "+"
      [] OTHER -> t

decodeValue(raw) == [i \in 1..Len(raw) |-> decodeToken(raw[i])]

\* a plausible slip: the query string is put together without encoding
encodeCharRaw(c) == c

\* URLSearchParams.toString(): a space is "+", a reserved character is escaped
encodeChar(c) ==
    CASE c = " " -> "+"
      [] c = "," -> "%2C"
      [] c = "+" -> "%2B"
      [] OTHER -> c

encodeValue(str) == [i \in 1..Len(str) |-> encodeChar(str[i])]

\* params.get(k): the decoded value of the first pair with the key, or null
UrlGet(x, k) ==
    IF \E i \in 1..Len(x) : x[i].key = k
    THEN decodeValue(x[CHOOSE i \in 1..Len(x) :
                          x[i].key = k /\ \A j \in 1..(i - 1) : x[j].key # k].raw)
    ELSE Null

\* v || ""  and  v || null, for a string or null
OrEmpty(v) == IF v = Null THEN <<>> ELSE v
OrNull(v) == IF v = Null \/ v = <<>> THEN Null ELSE v

RECURSIVE TrimStart(_)
TrimStart(str) == IF str # <<>> /\ Head(str) = " " THEN TrimStart(Tail(str)) ELSE str

RECURSIVE TrimEnd(_)
TrimEnd(str) ==
    IF str # <<>> /\ str[Len(str)] = " " THEN TrimEnd(SubSeq(str, 1, Len(str) - 1)) ELSE str

\* String.prototype.trim
trim(str) == TrimEnd(TrimStart(str))

\* String.prototype.split(sep)
RECURSIVE split(_, _)
split(str, sep) ==
    IF \E i \in 1..Len(str) : str[i] = sep
    THEN LET i == CHOOSE k \in 1..Len(str) :
                      str[k] = sep /\ \A j \in 1..(k - 1) : str[j] # sep
         IN  <<SubSeq(str, 1, i - 1)>> \o split(SubSeq(str, i + 1, Len(str)), sep)
    ELSE <<str>>

\* Array.prototype.join(sep)
RECURSIVE join(_, _)
join(list, sep) ==
    IF list = <<>> THEN <<>>
    ELSE IF Len(list) = 1 THEN list[1]
    ELSE list[1] \o <<sep>> \o join(Tail(list), sep)

\* .filter(Boolean) on a list of strings
NonEmptyOnly(list) == LET Truthy(str) == str # <<>> IN SelectSeq(list, Truthy)

\* lines 6-21
parseURLParams(searchString) ==
    [search |-> trim(OrEmpty(UrlGet(searchString, "q"))),
     theme |-> OrNull(UrlGet(searchString, "theme")),
     barrier |-> OrNull(UrlGet(searchString, "barrier")),
     personas |-> NonEmptyOnly(split(OrEmpty(UrlGet(searchString, "personas")), ","))]

\* params.set(key, value) on a fresh URLSearchParams, when the value is truthy
ParamIf(cond, key, value) ==
    IF cond THEN <<[key |-> key, raw |-> encodeValue(value)]>> ELSE <<>>

\* lines 32-53; the empty list is the empty string, no "?"
generateURLParams(state) ==
    ParamIf(state.search # <<>>, "q", state.search)
    \o ParamIf(state.theme # Null /\ state.theme # <<>>, "theme", state.theme)
    \o ParamIf(state.barrier # Null /\ state.barrier # <<>>, "barrier", state.barrier)
    \o ParamIf(Len(state.personas) > 0, "personas", join(state.personas, ","))

\* values as written in a URL, up to MaxValueLen tokens
RawValues == UNION {[1..n -> UrlTokens] : n \in 0..MaxValueLen}

\* query strings: one pair with any value, and possibly a second pair
QueryStrings ==
    {<<>>}
    \cup {<<[key |-> k, raw |-> v]>> : k \in UrlKeys, v \in RawValues}
    \cup {<<[key |-> k, raw |-> v], [key |-> k2, raw |-> v2]>> :
             k \in UrlKeys, v \in RawValues, k2 \in UrlKeys, v2 \in {<<>>, <<"a">>}}

InitUrl ==
    /\ RingIdle
    /\ RouterIdle
    /\ urlIn \in QueryStrings
    /\ urlRt = NoRoundTrip
    /\ UiIdle /\ FilterIdle /\ ChartIdle /\ SwIdle

\* parse, generate, parse again
RoundTrip ==
    /\ ~urlRt.done
    /\ \E st \in {parseURLParams(urlIn)} :
       \E g \in {generateURLParams(st)} :
          urlRt' = [done |-> TRUE, parsed |-> st, generated |-> g,
                    reparsed |-> parseURLParams(g)]
    /\ UNCHANGED <<segVars, probe, labelVars, pathVars, appVars, exportVars, urlIn,
                   uiVars, filterVars, chartVars, swVars>>

NextUrl == RoundTrip

SpecUrl == InitUrl /\ [][NextUrl]_vars

----------------------------------------------------------------------------
(* Resource filter: dataTransform.js, filterResources (lines 31-45).      *)
(* Strings are sequences of characters over a small alphabet with both    *)
(* cases, so that trim, toLowerCase and includes do real work.            *)

MaxResources == 2

\* String.prototype.toLowerCase, one character
lowerChar(c) == IF c = "A" THEN "a" ELSE IF c = "B" THEN "b" ELSE c

\* the mutant of toLowerCase: the text is compared as written
toLowerCaseKept(str) == str

\* String.prototype.toLowerCase
toLowerCase(str) == [i \in 1..Len(str) |-> lowerChar(str[i])]

\* String.prototype.startsWith
startsWith(str, q) == Len(q) <= Len(str) /\ SubSeq(str, 1, Len(q)) = q

\* String.prototype.includes: scan the start positions from the left
RECURSIVE includes(_, _)
includes(str, q) ==
    IF startsWith(str, q) THEN TRUE
    ELSE IF str = <<>> THEN FALSE
    ELSE includes(Tail(str), q)

\* Array.prototype.includes
arrayIncludes(list, x) == \E i \in 1..Len(list) : list[i] = x

\* Array.prototype.some over the tags (line 38)
RECURSIVE someTagIncludes(_, _)
someTagIncludes(tags, q) ==
    IF tags = <<>> THEN FALSE
    ELSE IF includes(toLowerCase(Head(tags)), q) THEN TRUE
    ELSE someTagIncludes(Tail(tags), q)

\* lines 35-38; q is already trimmed and lower-cased
matchesText(r, q) ==
    \/ q = <<>>
    \/ includes(toLowerCase(r.title), q)
    \/ includes(toLowerCase(r.description), q)
    \/ someTagIncludes(r.tags, q)

\* Array.prototype.some over the personas of the resource (line 41)
RECURSIVE somePersonaSelected(_, _)
somePersonaSelected(personas, selected) ==
    IF personas = <<>> THEN FALSE
    ELSE IF arrayIncludes(selected, Head(personas)) THEN TRUE
    ELSE somePersonaSelected(Tail(personas), selected)

\* lines 40-41
matchesPersonas(r, selected) ==
    Len(selected) = 0 \/ somePersonaSelected(r.personas, selected)

\* Array.prototype.filter with the callback of lines 34-44
RECURSIVE filterByTextAndPersonas(_, _, _)
filterByTextAndPersonas(rs, q, selected) ==
    IF rs = <<>> THEN <<>>
    ELSE (IF matchesText(Head(rs), q) /\ matchesPersonas(Head(rs), selected)
          THEN <<Head(rs)>> ELSE <<>>)
         \o filterByTextAndPersonas(Tail(rs), q, selected)

\* lines 31-45
filterResources(rs, searchQuery, selected) ==
    filterByTextAndPersonas(rs, toLowerCase(trim(searchQuery)), selected)

\* normalised resources: title, description, tags, personas, and the fields
\* the App reads (barrier_category, barriers, date)
ResourcePool ==
    [title : {<<"A", "b">>, <<>>},
     description : {<<>>, <<"a">>},
     tags : {<<>>, << <<"B">> >>},
     personas : {<<>>, << <<"a">> >>, << <<"a">>, <<"b">> >>},
     barrier_category : {<<"a">>},
     barriers : {<< <<"b">> >>},
     date : {<<>>}]

ResourceLists ==
    UNION {[1..n -> ResourcePool] : n \in 0..MaxResources}

SearchQueries ==
    {<<>>, <<" ">>, <<"a">>, <<" ", "A", " ">>, <<"a", "b">>, <<"B", " ">>, <<"b", "a">>}

PersonaSelections ==
    {<<>>, << <<"a">> >>, << <<"b">> >>, << <<"b">>, <<"a">> >>}

InitFilter ==
    /\ RingIdle
    /\ RouterIdle
    /\ UrlIdle /\ UiIdle /\ ChartIdle /\ SwIdle
    /\ fIn \in [resources : ResourceLists, searchQuery : SearchQueries,
                selectedPersonas : PersonaSelections]
    /\ fOut = NoFilterResult

\* one call of filterResources
FilterResources ==
    /\ ~fOut.done
    /\ \E res \in {filterResources(fIn.resources, fIn.searchQuery, fIn.selectedPersonas)} :
          fOut' = [done |-> TRUE, result |-> res]
    /\ UNCHANGED <<segVars, probe, labelVars, pathVars, appVars, exportVars, urlVars,
                   uiVars, fIn, chartVars, swVars>>

NextFilter == FilterResources

SpecFilter == InitFilter /\ [][NextFilter]_vars

----------------------------------------------------------------------------
(* App.jsx: filter state, URL effects and event handlers (lines 58-142),  *)
(* and the results list (lines 472-484).  One render commit and the       *)
(* effects it schedules are steps of uiPc:                                *)
(*   initial  : first render done, with the empty state                   *)
(*   restored : the URL-restore effect has run (its setState are queued)  *)
(*   mounted  : the URL-sync effect has run with the empty state          *)
(*   rendered : a re-render with new state is committed, effects pending  *)
(*   settled  : nothing pending, the app waits for an event               *)

\* ids of themes, barriers and personas, as strings
UiIds == {<<"a">>, <<"b">>}

\* texts typed in the search box
UiSearches == {<<>>, <<"a">>}

\* the query strings the app is loaded with
AppUrls ==
    {qs \o th \o ba \o pe :
        qs \in {<<>>, <<[key |-> "q", raw |-> <<" ", "a">>]>>},
        th \in {<<>>, <<[key |-> "theme", raw |-> <<"a">>]>>},
        ba \in {<<>>, <<[key |-> "barrier", raw |-> <<"b">>]>>},
        pe \in {<<>>, <<[key |-> "personas", raw |-> <<"a">>]>>,
                <<[key |-> "personas", raw |-> <<"a", ",", "a">>]>>,
                <<[key |-> "personas", raw |-> <<"a", "%2C", "a">>]>>}}

\* RESOURCES after normalizeResource (line 148)
AppDatasets ==
    {<< [title |-> <<"A", "b">>, description |-> <<>>, tags |-> <<>>,
         personas |-> << <<"a">> >>, barrier_category |-> <<"a">>,
         barriers |-> << <<"a">> >>, date |-> <<"1">>],
        [title |-> <<>>, description |-> <<"a">>, tags |-> << <<"B">> >>,
         personas |-> << <<"b">> >>, barrier_category |-> <<"b">>,
         barriers |-> << <<"b">> >>, date |-> <<"2">>],
        [title |-> <<"A", "b">>, description |-> <<"a">>, tags |-> <<>>,
         personas |-> << <<"a">>, <<"b">> >>, barrier_category |-> <<"a">>,
         barriers |-> << <<"a">>, <<"b">> >>, date |-> <<>>] >>,
     << [title |-> <<"b">>, description |-> <<>>, tags |-> <<>>,
         personas |-> <<>>, barrier_category |-> <<"b">>,
         barriers |-> <<>>, date |-> <<"2">>],
        [title |-> <<"a">>, description |-> <<>>, tags |-> <<>>,
         personas |-> << <<"a">> >>, barrier_category |-> <<"a">>,
         barriers |-> << <<"b">> >>, date |-> <<"2">>] >>}

\* the filter state of the component
uiState ==
    [search |-> search, theme |-> selectedTheme, barrier |-> selectedBarrier,
     personas |-> selectedPersonas]

\* rank of a character in the collation of dates and names
charRank(c) ==
    IF c = "1" THEN 1 ELSE IF c = "2" THEN 2 ELSE IF c = "a" THEN 3 ELSE IF c = "b" THEN 4 ELSE 0

\* String.prototype.localeCompare: negative, zero or positive
RECURSIVE localeCompare(_, _)
localeCompare(a, b) ==
    IF a = <<>> /\ b = <<>> THEN 0
    ELSE IF a = <<>> THEN -1
    ELSE IF b = <<>> THEN 1
    ELSE IF charRank(Head(a)) < charRank(Head(b)) THEN -1
    ELSE IF charRank(Head(a)) > charRank(Head(b)) THEN 1
    ELSE localeCompare(Tail(a), Tail(b))

\* one insertion of the stable sort by (b.date || "").localeCompare(a.date || "")
RECURSIVE insertByDate(_, _)
insertByDate(sorted, r) ==
    IF sorted = <<>> THEN <<r>>
    ELSE IF localeCompare(Head(sorted).date, r.date) < 0
         THEN <<r>> \o sorted
         ELSE <<Head(sorted)>> \o insertByDate(Tail(sorted), r)

\* Array.prototype.sort (line 481)
RECURSIVE sortByDate(_)
sortByDate(rs) ==
    IF rs = <<>> THEN <<>>
    ELSE insertByDate(sortByDate(SubSeq(rs, 1, Len(rs) - 1)), rs[Len(rs)])

\* lines 474-480; the text and persona tests are those of filterResources
matchesAll(r, st) ==
    /\ matchesText(r, toLowerCase(trim(st.search)))
    /\ matchesPersonas(r, st.personas)
    /\ (st.theme = Null \/ r.barrier_category = st.theme)
    /\ (st.barrier = Null \/ arrayIncludes(r.barriers, st.barrier))

\* lines 472-484
filtered(rs, st) ==
    LET keep(r) == matchesAll(r, st) IN sortByDate(SelectSeq(rs, keep))

InitApp ==
    /\ RingIdle
    /\ RouterIdle
    /\ UrlIdle /\ FilterIdle /\ SwIdle
    /\ resources \in AppDatasets
    /\ chartData = NoChart
    /\ search = <<>>
    /\ selectedTheme = Null
    /\ selectedBarrier = Null
    /\ selectedPersonas = <<>>
    /\ location \in AppUrls
    /\ loadedUrl = location
    /\ uiPc = "initial"
    /\ pendingUpd = EmptyState
    /\ hist = NoHist

AppRest ==
    UNCHANGED <<segVars, probe, labelVars, pathVars, appVars, exportVars, urlVars,
                filterVars, chartVars, swVars, loadedUrl>>

\* the mutant of RestoreEffect: the effect reads the URL the sync effect wrote
RestoreEffectAfterUrlWrite ==
    /\ uiPc = "initial"
    /\ pendingUpd' = uiState
    /\ uiPc' = "restored"
    /\ UNCHANGED <<search, selectedTheme, selectedBarrier, selectedPersonas, location, hist>>
    /\ AppRest

\* lines 82-88: the setState calls are queued until the effects have run
RestoreEffect ==
    /\ uiPc = "initial"
    /\ \E params \in {parseURLParams(location)} :
          pendingUpd' =
             [search |-> IF params.search # <<>> THEN params.search ELSE search,
              theme |-> IF params.theme # Null THEN params.theme ELSE selectedTheme,
              barrier |-> IF params.barrier # Null THEN params.barrier ELSE selectedBarrier,
              personas |-> IF Len(params.personas) # 0 THEN params.personas
                           ELSE selectedPersonas]
    /\ uiPc' = "restored"
    /\ UNCHANGED <<search, selectedTheme, selectedBarrier, selectedPersonas, location, hist>>
    /\ AppRest

\* lines 89-96 with updateBrowserURL (urlState.js 60-64): on mount after the
\* restore effect, and after every commit that changed a dependency
UrlEffect ==
    /\ uiPc \in {"restored", "rendered"}
    /\ \E q \in {generateURLParams(uiState)} : location' = q
    /\ uiPc' = IF uiPc = "restored" THEN "mounted" ELSE "settled"
    /\ UNCHANGED <<search, selectedTheme, selectedBarrier, selectedPersonas, pendingUpd, hist>>
    /\ AppRest

\* the re-render caused by the queued setState calls of the restore effect;
\* without a change of state React commits nothing and no effect runs
Rerender ==
    /\ uiPc = "mounted"
    /\ search' = pendingUpd.search
    /\ selectedTheme' = pendingUpd.theme
    /\ selectedBarrier' = pendingUpd.barrier
    /\ selectedPersonas' = pendingUpd.personas
    /\ uiPc' = IF pendingUpd = uiState THEN "settled" ELSE "rendered"
    /\ UNCHANGED <<location, pendingUpd, hist>>
    /\ AppRest

\* an event that is not togglePersona
OtherEvent(name) == [NoHist EXCEPT !.ev = name]

\* lines 123-131, and the re-render
ToggleTheme(id) ==
    /\ uiPc = "settled"
    /\ selectedTheme' = IF selectedTheme = id THEN Null ELSE id
    /\ selectedBarrier' = Null
    /\ uiPc' = "rendered"
    /\ hist' = OtherEvent("toggleTheme")
    /\ UNCHANGED <<search, selectedPersonas, location, pendingUpd>>
    /\ AppRest

\* lines 132-140, and the re-render
ToggleBarrier(id) ==
    /\ uiPc = "settled"
    /\ selectedBarrier' = IF selectedBarrier = id THEN Null ELSE id
    /\ selectedTheme' = Null
    /\ uiPc' = "rendered"
    /\ hist' = OtherEvent("toggleBarrier")
    /\ UNCHANGED <<search, selectedPersonas, location, pendingUpd>>
    /\ AppRest

\* what a toggle of persona id records
PersonaEvent(id) ==
    LET again == hist.ev = "togglePersona" /\ hist.id = id
    IN  [ev |-> "togglePersona", id |-> id,
         personas |-> selectedPersonas,
         filtered |-> filtered(resources, uiState),
         twice |-> again,
         personas0 |-> IF again THEN hist.personas ELSE <<>>,
         filtered0 |-> IF again THEN hist.filtered ELSE <<>>]

\* the mutant of TogglePersona: the id is always added
TogglePersonaAlwaysAdds(id) ==
    /\ uiPc = "settled"
    /\ selectedPersonas' = Append(selectedPersonas, id)
    /\ uiPc' = "rendered"
    /\ \E h \in {PersonaEvent(id)} : hist' = h
    /\ UNCHANGED <<search, selectedTheme, selectedBarrier, location, pendingUpd>>
    /\ AppRest

\* line 141, and the re-render (the new array always differs by identity)
TogglePersona(id) ==
    /\ uiPc = "settled"
    /\ selectedPersonas' =
          IF arrayIncludes(selectedPersonas, id)
          THEN LET other(x) == x # id IN SelectSeq(selectedPersonas, other)
          ELSE Append(selectedPersonas, id)
    /\ uiPc' = "rendered"
    /\ \E h \in {PersonaEvent(id)} : hist' = h
    /\ UNCHANGED <<search, selectedTheme, selectedBarrier, location, pendingUpd>>
    /\ AppRest

\* the search box: setSearch(e.target.value), and the re-render if it changed
SetSearch(text) ==
    /\ uiPc = "settled"
    /\ search' = text
    /\ uiPc' = IF text = search THEN "settled" ELSE "rendered"
    /\ hist' = OtherEvent("setSearch")
    /\ UNCHANGED <<selectedTheme, selectedBarrier, selectedPersonas, location, pendingUpd>>
    /\ AppRest

\* the mutant of ClearAll: the personas stay selected
ClearAllKeepsPersonas ==
    /\ uiPc = "settled"
    /\ search' = <<>>
    /\ selectedTheme' = Null
    /\ selectedBarrier' = Null
    /\ uiPc' = "rendered"
    /\ hist' = OtherEvent("clearAll")
    /\ UNCHANGED <<selectedPersonas, location, pendingUpd>>
    /\ AppRest

\* line 142, and the re-render (the new empty array differs by identity)
ClearAll ==
    /\ uiPc = "settled"
    /\ search' = <<>>
    /\ selectedTheme' = Null
    /\ selectedBarrier' = Null
    /\ selectedPersonas' = <<>>
    /\ uiPc' = "rendered"
    /\ hist' = OtherEvent("clearAll")
    /\ UNCHANGED <<location, pendingUpd>>
    /\ AppRest

NextApp ==
    \/ RestoreEffect
    \/ UrlEffect
    \/ Rerender
    \/ \E id \in UiIds : ToggleTheme(id)
    \/ \E id \in UiIds : ToggleBarrier(id)
    \/ \E id \in UiIds : TogglePersona(id)
    \/ \E text \in UiSearches : SetSearch(text)
    \/ ClearAll

SpecApp == InitApp /\ [][NextApp]_vars

----------------------------------------------------------------------------
(* App.jsx: data of the interactive chart (lines 149-209).  Theme and     *)
(* barrier ids are numbers as in the ring export; barrierThemes and       *)
(* barriers hold THEMES_RAW and BARRIERS_RAW.  Values are in              *)
(* ten-thousandths, so that the epsilon 0.0001 is 1.                      *)

VALUE_UNIT == 10000
EPSILON == 1

\* THEMES_RAW: ids are distinct, the order may be missing
ChartThemeLists ==
    {l \in UNION {[1..n -> [id : 1..MaxThemes, order : {NoOrder, 1, 2}]] : n \in 0..MaxThemes} :
        \A i \in 1..Len(l) : l[i].id = i}

MaxChartBarriers == 2

\* BARRIERS_RAW: themeId 0 is a missing themeId, MaxThemes + 1 an unknown theme
ChartBarrierLists ==
    {l \in UNION {[1..n -> [id : 1..MaxChartBarriers, name : {<<"a">>, <<"b">>},
                            themeId : 0..(MaxThemes + 1), categoryId : {1}]] :
                  n \in 0..MaxChartBarriers} :
        \A i \in 1..Len(l) : l[i].id = i}

\* RESOURCES after normalizeResource
ChartDatasets ==
    {<<>>,
     << [title |-> <<"a">>, description |-> <<>>, tags |-> <<>>,
         personas |-> << <<"a">> >>, barrier_category |-> 1, barriers |-> <<1>>] >>,
     << [title |-> <<"a">>, description |-> <<>>, tags |-> <<>>,
         personas |-> << <<"a">> >>, barrier_category |-> 1, barriers |-> <<1, 2>>],
        [title |-> <<"b">>, description |-> <<>>, tags |-> << <<"A">> >>,
         personas |-> <<>>, barrier_category |-> 2, barriers |-> <<2>>],
        [title |-> <<"b">>, description |-> <<>>, tags |-> <<>>,
         personas |-> << <<"b">> >>, barrier_category |-> 2, barriers |-> <<1>>] >>}

ChartSearches == {<<>>, <<"a">>, <<"B", " ">>}

ChartPersonas == {<<>>, << <<"a">> >>}

\* line 151: themeId: b.themeId || b.categoryId
normalizeBarrier(b) ==
    [id |-> b.id, name |-> b.name,
     themeId |-> IF b.themeId = 0 THEN b.categoryId ELSE b.themeId]

BARRIERS_OF(raw) == [i \in 1..Len(raw) |-> normalizeBarrier(raw[i])]

\* lines 154-159
baseFilter(r, q, selected) ==
    matchesText(r, toLowerCase(trim(q))) /\ matchesPersonas(r, selected)

\* lines 162-169
barrierValuesOf(bs, rs, q, selected) ==
    [i \in 1..Len(bs) |->
        [id |-> bs[i].id, name |-> bs[i].name, themeId |-> bs[i].themeId,
         value |-> LET counted(r) == baseFilter(r, q, selected)
                                        /\ arrayIncludes(r.barriers, bs[i].id)
                   IN  Len(SelectSeq(rs, counted)) * VALUE_UNIT]]

\* one insertion of the stable sort by a.name.localeCompare(b.name)
RECURSIVE insertByName(_, _)
insertByName(sorted, b) ==
    IF sorted = <<>> THEN <<b>>
    ELSE IF localeCompare(b.name, Head(sorted).name) < 0
         THEN <<b>> \o sorted
         ELSE <<Head(sorted)>> \o insertByName(Tail(sorted), b)

RECURSIVE sortByName(_)
sortByName(bs) ==
    IF bs = <<>> THEN <<>>
    ELSE insertByName(sortByName(SubSeq(bs, 1, Len(bs) - 1)), bs[Len(bs)])

\* lines 171-178: the groups, in the order of THEMES
barriersByThemeOf(themes, bvals) ==
    [i \in 1..Len(themes) |->
        [theme |-> themes[i],
         items |-> LET ofTheme(b) == b.themeId = themes[i].id
                   IN  sortByName(SelectSeq(bvals, ofTheme))]]

\* the sum of the values of a list
RECURSIVE sumValues(_)
sumValues(list) == IF list = <<>> THEN 0 ELSE Head(list).value + sumValues(Tail(list))

\* line 203: value: sum === 0 ? 0.0001 : sum
themeValue(sum) == IF sum = 0 THEN EPSILON ELSE sum

\* lines 182-207
themeDataOf(themes, bvals, rs, q, selected) ==
    [i \in 1..Len(themes) |->
        [id |-> themes[i].id,
         value |-> LET ofTheme(b) == b.themeId = themes[i].id
                   IN  themeValue(sumValues(SelectSeq(bvals, ofTheme))),
         displayCount |-> LET unique(r) == baseFilter(r, q, selected)
                                              /\ r.barrier_category = themes[i].id
                          IN  Len(SelectSeq(rs, unique))]]

\* line 209: flatMap
RECURSIVE flatItems(_)
flatItems(groups) ==
    IF groups = <<>> THEN <<>> ELSE Head(groups).items \o flatItems(Tail(groups))

InitChart ==
    /\ barrierThemes \in ChartThemeLists
    /\ barriers \in ChartBarrierLists
    /\ pc = "done"
    /\ themeIds = <<>>
    /\ ti = 1
    /\ angle = 0
    /\ innerSegments = <<>>
    /\ outerSegments = <<>>
    /\ themeOrientationOverride = <<>>
    /\ oi = 1
    /\ outerLabels = <<>>
    /\ probe = NoProbe
    /\ LabelIdle
    /\ RouterIdle
    /\ UrlIdle /\ FilterIdle /\ SwIdle
    /\ resources \in ChartDatasets
    /\ chartData = NoChart
    /\ search \in ChartSearches
    /\ selectedTheme = Null
    /\ selectedBarrier = Null
    /\ selectedPersonas \in ChartPersonas
    /\ location = <<>>
    /\ uiPc = "settled"
    /\ pendingUpd = EmptyState
    /\ loadedUrl = <<>>
    /\ hist = NoHist

\* one render: the useMemo chain of lines 149-209
BuildChartData ==
    /\ ~chartData.done
    /\ \E themes \in {sortedThemesOfApp(barrierThemes)} :
       \E bvals \in {barrierValuesOf(BARRIERS_OF(barriers), resources, search,
                                     selectedPersonas)} :
          chartData' =
             [done |-> TRUE,
              barrierValues |-> bvals,
              barrierData |-> flatItems(barriersByThemeOf(themes, bvals)),
              themeData |-> themeDataOf(themes, bvals, resources, search, selectedPersonas)]
    /\ UNCHANGED <<segVars, probe, labelVars, pathVars, appVars, exportVars, urlVars,
                   uiVars, filterVars, resources, swVars>>

NextChart == BuildChartData

SpecChart == InitChart /\ [][NextChart]_vars

----------------------------------------------------------------------------
(* Service worker: part_004, lines 306-528.  A cache is the set of the    *)
(* URLs it holds; a URL is its origin and its pathname.                   *)

CACHE_NAME == "pdatf-toolkit-v1"
RUNTIME_CACHE == "pdatf-runtime-v1"

\* lines 320-325
PRECACHE_ASSETS == {"/", "/index.html", "/manifest.json", "/data-worker.js"}

\* the requests of the pages: origin, pathname split into directory and
\* extension, and request.mode
Requests ==
    [url : {"/", "/index.html", "/offline.html"}, origin : {"self"}, dir : {""},
     ext : {"", "html"}, mode : {"navigate"}]
    \cup [url : {"/api/items"}, origin : {"self"}, dir : {"api"}, ext : {""}, mode : {"cors"}]
    \cup [url : {"/data/resources.json"}, origin : {"self"}, dir : {"data"},
          ext : {"json"}, mode : {"cors"}]
    \cup [url : {"/assets/app.js"}, origin : {"self"}, dir : {"assets"},
          ext : {"js"}, mode : {"no-cors"}]
    \cup [url : {"https://cdn.example/lib.js"}, origin : {"other"}, dir : {""},
          ext : {"js"}, mode : {"no-cors"}]

\* the requests whose extension is the one of their pathname
WellFormedRequests ==
    {r \in Requests :
        /\ r.url = "/" => r.ext = ""
        /\ r.url \in {"/index.html", "/offline.html"} => r.ext = "html"}

StaticExtensions == {"js", "css", "png", "jpg", "svg", "woff", "woff2"}

\* lines 373-410: the strategy the fetch handler answers with
strategyOf(r) ==
    IF r.origin # "self" THEN "none"
    ELSE IF r.dir = "api" THEN "networkFirst"
    ELSE IF r.dir = "data" /\ r.ext = "json" THEN "cacheFirst"
    ELSE IF r.ext \in StaticExtensions THEN "cacheFirst"
    ELSE "networkFirst"

FromNetwork(r, status) == [from |-> "network", url |-> r.url, status |-> status]
FromCache(u) == [from |-> "cache", url |-> u, status |-> 200]
Offline503 == [from |-> "generated", url |-> "", status |-> 503]
Rejected == [from |-> "rejected", url |-> "", status |-> 0]

\* the mutant of networkFirstFallback: the error of fetch is not caught
networkFirstRethrows(r, cache) == Rejected

\* lines 481-509: the catch block of networkFirst, on the runtime cache
networkFirstFallback(r, cache) ==
    IF r.url \in cache THEN FromCache(r.url)
    ELSE IF r.mode = "navigate" /\ "/index.html" \in cache THEN FromCache("/index.html")
    ELSE IF "/offline.html" \in cache THEN FromCache("/offline.html")
    ELSE Offline503

\* lines 467-510: fetched is the status of the network response, 0 if fetch
\* rejected
networkFirst(r, cache, fetched) ==
    IF fetched # 0 THEN FromNetwork(r, fetched) ELSE networkFirstFallback(r, cache)

\* lines 416-461
cacheFirst(r, cache, fetched) ==
    IF r.url \in cache THEN FromCache(r.url)
    ELSE IF fetched # 0 THEN FromNetwork(r, fetched)
    ELSE IF "/offline.html" \in cache THEN FromCache("/offline.html")
    ELSE Offline503

\* cache.put(request, response.clone()) of both strategies, also the
\* background update of cacheFirst: only a 200 response is stored
cachePut(cache, r, fetched) == IF fetched = 200 THEN cache \cup {r.url} ELSE cache

InitSW ==
    /\ RingIdle
    /\ RouterIdle
    /\ UrlIdle /\ UiIdle /\ FilterIdle /\ ChartIdle
    /\ SwIdle

SwRest ==
    UNCHANGED <<segVars, probe, labelVars, pathVars, appVars, exportVars, urlVars,
                uiVars, filterVars, chartVars>>

\* lines 328-345: addAll stores all the assets or none; its failure is
\* caught and logged, the worker is installed either way
Install ==
    /\ swPc = "new"
    /\ precache' = IF online THEN PRECACHE_ASSETS ELSE {}
    /\ swPc' = "installed"
    /\ UNCHANGED <<runtime, online, everFetched, lastFetch>>
    /\ SwRest

\* lines 347-370: both caches are current and are kept
Activate ==
    /\ swPc = "installed"
    /\ swPc' = "active"
    /\ UNCHANGED <<precache, runtime, online, everFetched, lastFetch>>
    /\ SwRest

\* the network comes and goes
ToggleNetwork ==
    /\ online' = ~online
    /\ UNCHANGED <<swPc, precache, runtime, everFetched, lastFetch>>
    /\ SwRest

\* lines 373-410: one fetch event; offline the network fetch rejects, online
\* the server answers 200 or 404
Fetch(r) ==
    /\ swPc = "active"
    /\ \E fetched \in (IF online THEN {200, 404} ELSE {0}) :
       \E strategy \in {strategyOf(r)} :
          /\ lastFetch' =
                [url |-> r.url, mode |-> r.mode, strategy |-> strategy,
                 networkFailed |-> (fetched = 0),
                 hadRequest |-> (r.url \in runtime),
                 hadIndex |-> ("/index.html" \in runtime),
                 hadOffline |-> ("/offline.html" \in runtime),
                 precached |-> ({"/", "/index.html"} \subseteq precache),
                 fetchedBefore |-> (r.url \in everFetched),
                 response |->
                    IF strategy = "networkFirst" THEN networkFirst(r, runtime, fetched)
                    ELSE IF strategy = "cacheFirst" THEN cacheFirst(r, runtime, fetched)
                    ELSE IF fetched # 0 THEN FromNetwork(r, fetched)
                    ELSE Rejected]
          /\ runtime' = IF strategy = "none" THEN runtime ELSE cachePut(runtime, r, fetched)
    /\ everFetched' = everFetched \cup {r.url}
    /\ UNCHANGED <<swPc, precache, online>>
    /\ SwRest

\* lines 519-528: the message CLEAR_CACHE deletes every cache
ClearCache ==
    /\ swPc = "active"
    /\ precache # {} \/ runtime # {}
    /\ precache' = {}
    /\ runtime' = {}
    /\ UNCHANGED <<swPc, online, everFetched, lastFetch>>
    /\ SwRest

NextSW ==
    \/ Install
    \/ Activate
    \/ ToggleNetwork
    \/ \E r \in WellFormedRequests : Fetch(r)
    \/ ClearCache

SpecSW == InitSW /\ [][NextSW]_vars

----------------------------------------------------------------------------
(* Claims about the segment builder (specification Spec) *)

Built == pc \in {"orient", "labels", "done"}

OuterSpan(i) == outerSegments[i].a1 - outerSegments[i].a0

OuterSpans == [i \in 1..Len(outerSegments) |-> OuterSpan(i)]

OuterSpansOf(tid) ==
    LET segs == segsOfTheme(tid) IN [i \in 1..Len(segs) |-> segs[i].a1 - segs[i].a0]

\* C1: for every dataset with at least one barrier, the spans of all outer
\* segments sum to one full turn.
C1_OuterSpansSumToFullTurn ==
    (Built /\ Len(barriers) >= 1) => SumSeq(OuterSpans) = TURN

\* C2: for every theme, the span of its inner segment equals the sum of the
\* spans of the outer segments of that theme.
C2_InnerSpanIsSumOfOuterSpans ==
    Built => \A i \in 1..Len(innerSegments) :
                innerSegments[i].a1 - innerSegments[i].a0
                    = SumSeq(OuterSpansOf(innerSegments[i].themeId))

C2_Witness ==
    /\ pc = "done"
    /\ Len(innerSegments) = 2
    /\ \E i \in 1..2 : Len(segsOfTheme(innerSegments[i].themeId)) >= 2
    /\ \E i \in 1..2 : Len(segsOfTheme(innerSegments[i].themeId)) = 1

\* the inner segments are contiguous from START_ANGLE to START_ANGLE + a turn
InnerTiles ==
    /\ Len(innerSegments) >= 1 => innerSegments[1].a0 = START_ANGLE
    /\ \A i \in 2..Len(innerSegments) : innerSegments[i].a0 = innerSegments[i - 1].a1
    /\ Len(innerSegments) >= 1 =>
          innerSegments[Len(innerSegments)].a1 = START_ANGLE + TURN

\* the outer segments of a theme are contiguous from the theme's a0 to its a1
OuterTiles(i) ==
    LET segs == segsOfTheme(innerSegments[i].themeId)
    IN  Len(segs) >= 1 =>
          /\ segs[1].a0 = innerSegments[i].a0
          /\ \A k \in 2..Len(segs) : segs[k].a0 = segs[k - 1].a1
          /\ segs[Len(segs)].a1 = innerSegments[i].a1

\* C3: the segments tile the circle without gaps or overlaps: the inner
\* segments run contiguously from START_ANGLE to START_ANGLE plus a full turn,
\* and the outer segments of each theme run contiguously from the theme's a0
\* to its a1.
C3_SegmentsTileTheCircle ==
    (Built /\ Len(barriers) >= 1) =>
        /\ InnerTiles
        /\ \A i \in 1..Len(innerSegments) : OuterTiles(i)

LabelsOf(tid) == {i \in 1..Len(outerLabels) : outerLabels[i].themeId = tid}

\* C4: all outer labels of one theme are rendered with the same finalFlip.
C4_OneOrientationPerTheme ==
    \A i \in 1..Len(outerLabels) : \A j \in 1..Len(outerLabels) :
        outerLabels[i].themeId = outerLabels[j].themeId
            => outerLabels[i].finalFlip = outerLabels[j].finalFlip

Straddles(tid) ==
    \E i \in 1..Len(outerSegments) : \E j \in 1..Len(outerSegments) :
        /\ outerSegments[i].themeId = tid
        /\ outerSegments[j].themeId = tid
        /\ outerSegments[i].baseFlip # outerSegments[j].baseFlip

C4_Witness ==
    /\ pc = "done"
    /\ \E tid \in 1..MaxThemes : Straddles(tid) /\ Cardinality(LabelsOf(tid)) >= 3

Oriented == pc \in {"labels", "done"}

Flipped(tid) ==
    {i \in 1..Len(outerSegments) : outerSegments[i].themeId = tid /\ outerSegments[i].baseFlip}

Unflipped(tid) ==
    {i \in 1..Len(outerSegments) : outerSegments[i].themeId = tid /\ ~outerSegments[i].baseFlip}

\* C5: an override is recorded for a theme exactly when its outer segments do
\* not all have the same baseFlip, and it is then true iff at least half of
\* the theme's segments are flipped.
C5_OverrideIsMajorityOfMixedTheme ==
    Oriented => \A k \in 1..Len(themeIds) :
        LET tid == themeIds[k] IN
        /\ tid \in DOMAIN themeOrientationOverride <=> Straddles(tid)
        /\ tid \in DOMAIN themeOrientationOverride =>
              (themeOrientationOverride[tid]
                  <=> Cardinality(Flipped(tid)) >= Cardinality(Unflipped(tid)))

\* a tie (override true) and a minority of flipped segments (override false)
C5_Witness ==
    /\ pc = "done"
    /\ \E tid \in DOMAIN themeOrientationOverride :
          /\ themeOrientationOverride[tid]
          /\ Cardinality(Flipped(tid)) = Cardinality(Unflipped(tid))

----------------------------------------------------------------------------
(* Claims about the flip decision (specification SpecProbe) *)

Probed == probe # NoProbe

\* the angle in degree ticks, reduced to [0, 360 degrees) by the floor modulus
DegreesInTurn(a) == a % (360 * DEG)

\* C6: shouldFlipAngle is true iff the angle normalised to [0, 360) degrees
\* lies strictly between 90 and 270; false at exactly 90 and 270.
C6_FlipIffBetween90And270 ==
    Probed => (probe.flip <=> (DegreesInTurn(probe.angle) > 90 * DEG
                               /\ DegreesInTurn(probe.angle) < 270 * DEG))

\* a negative angle that flips, and the two boundaries
C6_Witness ==
    /\ probe.angle < -TURN
    /\ probe.flip
    /\ DegreesInTurn(probe.angle) = 180 * DEG

\* C7 as stated: shouldFlipAngle is true exactly for the angles whose point
\* lies in the lower half of the circle in screen coordinates (y > cy), the
\* test the text-path router applies.
C7_FlipIffLowerHalf ==
    Probed => (probe.flip <=> probe.isBottom)

\* C7 amended: shouldFlipAngle is true exactly for the angles whose point
\* lies in the left half of the circle (x < cx).
C7_FlipIffLeftHalf ==
    Probed => (probe.flip <=> probe.point.x < cx * 1000)

\* a flipped angle in the upper left quadrant, which is not in the lower half
C7_Witness ==
    /\ Probed
    /\ probe.flip
    /\ ~probe.isBottom
    /\ probe.point.x < cx * 1000
    /\ probe.angle < 0

----------------------------------------------------------------------------
(* Claims about label fitting (specification SpecLabel) *)

MaxOf(S) == CHOOSE x \in S : \A y \in S : y <= x

\* the font sizes of the outer search at which the wrapped lines pass both checks
OuterPassing == {f \in minFont..OUTER_FONT_START : outerFits(f)}

\* the font sizes of the inner search at which the candidate passes both checks
InnerPassing ==
    {f \in INNER_FONT_MIN..INNER_FONT_MAX :
        widthsOk(innerCandidate(f)) /\ spacingOk(innerCandidate(f))}

LayoutDefined ==
    /\ lpc = "done"
    /\ lkind = "outer" =>
          /\ font \in guardFloor..OUTER_FONT_START
          /\ Len(lines) \in 0..maxLines
    /\ lkind = "inner" =>
          /\ innerLayout # NoLayout
          /\ innerLayout.fontSize \in INNER_FONT_MIN..INNER_FONT_MAX
          /\ Len(innerLayout.lines) \in 1..MAX_INNER_LINES
          /\ Len(innerLayout.radii) = Len(innerLayout.lines)

\* C8: for every segment and every label text the font searches (outer search
\* loop, final guard loop, inner search) terminate, each with a defined
\* layout: a font size and a list of lines, also when no candidate passes.
C8_FontSearchTerminates == <>LayoutDefined

\* an outer search in which no font size passed has ended
C8_Witness ==
    /\ lkind = "outer"
    /\ lpc = "done"
    /\ OuterPassing = {}
    /\ Len(lines) >= 1

\* C9: the outer font size is the largest size in 12..50 that passes both
\* checks when there is one; otherwise it goes below 12 only by decrements of
\* the final guard loop, and never below 10.
C9_OuterFontIsLargestFitOrGuarded ==
    (lkind = "outer" /\ lpc = "done") =>
        /\ OuterPassing # {} => font = MaxOf(OuterPassing)
        /\ OuterPassing = {} => font = minFont - guardDecs
        /\ font >= guardFloor

\* the part of C9 that the code does satisfy
C9_LargestFitWhenOneExists ==
    (lkind = "outer" /\ lpc = "done" /\ OuterPassing # {}) =>
        /\ font = MaxOf(OuterPassing)
        /\ lines = outerWrap(font)

\* C10: the inner layout returned is the candidate of the largest font size
\* in 14..44 that passes both checks; if none passes, the candidate at 44.
C10_InnerLayoutIsLargestFitOrFirst ==
    (lkind = "inner" /\ lpc = "done") =>
        innerLayout = IF InnerPassing # {}
                      THEN innerCandidate(MaxOf(InnerPassing))
                      ELSE innerCandidate(INNER_FONT_MAX)

\* an inner search in which no font size passed has returned the fallback
C10_Witness ==
    /\ lkind = "inner"
    /\ lpc = "done"
    /\ InnerPassing = {}
    /\ innerLayout.fontSize = INNER_FONT_MAX
    /\ Len(innerLayout.lines) = MAX_INNER_LINES

\* an inner search that accepted a size below the largest
C10_AcceptedBelowMax ==
    /\ lkind = "inner"
    /\ lpc = "done"
    /\ InnerPassing # {}
    /\ innerLayout.fontSize < INNER_FONT_MAX

\* C11: no label is rendered for a segment whose span after padding is below
\* the threshold of 12 degrees; in particular the zero-span inner segment of a
\* theme without barriers gets no label.  (Violated by the ring export, which
\* has no threshold: the inner label layout is never null.)
C11_NoLabelBelowMinimumSpan ==
    /\ innerLabelRendered =>
          rawAngle(lseg.a0, lseg.a1, INNER_TEXT_PAD_DEG) >= MIN_LABEL_DEG * DEG
    /\ outerLabelRendered => spanPadded(lseg) >= MIN_LABEL_DEG * DEG

\* the particular case: the zero-span inner segment gets no label
C11_ZeroSpanInnerUnlabelled == (lseg.a0 = lseg.a1) => ~innerLabelRendered

\* C13: for an empty label text both the inner and the outer label layout
\* complete with exactly one line.  (Violated by the outer layout: wrapToLines
\* returns no line for the empty text and the search accepts the empty list.)
C13_EmptyTextGivesOneLine ==
    (lpc = "done" /\ ltext = <<>>) =>
        IF lkind = "inner" THEN Len(innerLayout.lines) = 1 ELSE Len(lines) = 1

\* the inner half of C13 holds: the candidate falls back to [labelText || ""]
C13_InnerEmptyTextGivesOneLine ==
    (lpc = "done" /\ ltext = <<>> /\ lkind = "inner") => Len(innerLayout.lines) = 1

----------------------------------------------------------------------------
(* Claims about degenerate data (specification Spec) *)

BarriersOf(tid) == {i \in 1..Len(barriers) : barriers[i].themeId = tid}

\* C12: segment building completes for degenerate data: with zero barriers the
\* divisor is floored at 1 (the span of one barrier is the full turn), there
\* is one inner segment per theme, and every theme that has no barriers yields
\* an inner segment with a0 = a1 and no outer segment.
C12_DegenerateDataBuilds ==
    Built =>
        /\ Len(barriers) = 0 => (totalBarriers = 1 /\ perBarrierSpan = TURN)
        /\ Len(innerSegments) = Len(barrierThemes)
        /\ \A i \in 1..Len(innerSegments) :
              BarriersOf(innerSegments[i].themeId) = {} =>
                  /\ innerSegments[i].a0 = innerSegments[i].a1
                  /\ segsOfTheme(innerSegments[i].themeId) = <<>>

\* a theme without barriers in a dataset that has barriers
C12_Witness ==
    /\ pc = "done"
    /\ Len(barriers) >= 1
    /\ \E i \in 1..Len(innerSegments) :
          /\ BarriersOf(innerSegments[i].themeId) = {}
          /\ innerSegments[i].a0 = innerSegments[i].a1

\* the empty dataset with themes
C12_WitnessNoBarriers ==
    /\ pc = "done"
    /\ Len(barriers) = 0
    /\ Len(innerSegments) = MaxThemes

C14_WitnessInner ==
    /\ lpc = "done"
    /\ lkind = "inner"
    /\ Len(ltext) > MAX_INNER_LINES
    /\ Len(innerLayout.lines) = MAX_INNER_LINES

\* C15: in every inner label layout returned, accepted or fallback, each
\* line's radius lies inside the band of the inner ring inset by the margin:
\* innerR0 + 22 <= radius <= innerR1 - 22 (radii are in hundredths).
C15_InnerRadiiInsideBand ==
    (lkind = "inner" /\ lpc = "done") =>
        \A k \in 1..Len(innerLayout.radii) :
            /\ (innerR0 + innerMargin) * 100 <= innerLayout.radii[k]
            /\ innerLayout.radii[k] <= (innerR1 - innerMargin) * 100

\* an accepted layout of three lines on three distinct radii
C15_Witness ==
    /\ lkind = "inner"
    /\ lpc = "done"
    /\ innerLayout.fontSize \in InnerPassing
    /\ Len(innerLayout.radii) = MAX_INNER_LINES
    /\ innerLayout.radii[1] > innerLayout.radii[2]
    /\ innerLayout.radii[2] > innerLayout.radii[3]

\* a fallback layout of several lines
C15_WitnessFallback ==
    /\ lkind = "inner"
    /\ lpc = "done"
    /\ InnerPassing = {}
    /\ Len(innerLayout.radii) > 1

----------------------------------------------------------------------------
(* Claims about the text-path router (specification SpecPath) *)

PathBuilt == path # NoPath

\* the orientation the claim names: the forced value when a boolean is
\* forced, otherwise whether the midpoint of the arc lies below the center
BottomOfPath ==
    IF path.forced = "true" THEN TRUE
    ELSE IF path.forced = "false" THEN FALSE
    ELSE ellipsePoint(cx, cy, path.r, (path.A0 + path.A1) \div 2, ellipticalStretch).y
             > cy * 1000

FirstOfPath == path.d[1]
LastOfPath == path.d[Len(path.d)]

\* C16: the router emits a path that runs from a1 to a0 exactly when the
\* effective orientation is bottom (the forced value when a boolean is forced,
\* otherwise midpoint y > center y), and from a0 to a1 otherwise; a0 and a1
\* are the arguments of buildTextPathOriented.
C16_PathRunsReversedIffBottom ==
    PathBuilt =>
        /\ BottomOfPath => (FirstOfPath.a = path.A1 /\ LastOfPath.a = path.A0)
        /\ ~BottomOfPath => (FirstOfPath.a = path.A0 /\ LastOfPath.a = path.A1)
        /\ FirstOfPath.p = ellipsePoint(cx, cy, path.r, FirstOfPath.a, ellipticalStretch)
        /\ LastOfPath.p = ellipsePoint(cx, cy, path.r, LastOfPath.a, ellipticalStretch)

\* a forced bottom orientation on an arc whose midpoint is in the upper half
C16_Witness ==
    /\ PathBuilt
    /\ path.forced = "true"
    /\ ~isBottomAt(path.r, (path.A0 + path.A1) \div 2)
    /\ path.A0 # path.A1
    /\ FirstOfPath.a = path.A1

\* no forced orientation, midpoint in the lower half
C16_WitnessUnforcedBottom ==
    /\ PathBuilt
    /\ path.forced = "undefined"
    /\ path.A0 # path.A1
    /\ FirstOfPath.a = path.A1
    /\ FirstOfPath.p.y > cy * 1000

Sign(x) == IF x > 0 THEN 1 ELSE IF x < 0 THEN -1 ELSE 0

\* the original range moved inward by the padding at both ends
MovedInward ==
    LET pad == path.padDeg * DEG
    IN  IF path.a1 >= path.a0
        THEN path.A0 = path.a0 + pad /\ path.A1 = path.a1 - pad
        ELSE path.A0 = path.a0 - pad /\ path.A1 = path.a1 + pad

\* C17: for every angle range [a0, a1] and every padding >= 0 the padded range
\* is the original moved inward by the padding at both ends and has the same
\* winding direction: sign(A1 - A0) = sign(a1 - a0).  (Violated when the range
\* is not wider than twice the padding.)
C17_PaddingKeepsWinding ==
    PathBuilt =>
        /\ MovedInward
        /\ Sign(path.A1 - path.A0) = Sign(path.a1 - path.a0)

\* what holds: the ends are moved inward, and the winding is kept by every
\* range wider than twice the padding
C17_WindingKeptWhenWiderThanPadding ==
    PathBuilt =>
        /\ MovedInward
        /\ Abs(path.a1 - path.a0) > 2 * path.padDeg * DEG =>
              Sign(path.A1 - path.A0) = Sign(path.a1 - path.a0)

----------------------------------------------------------------------------
(* Claims about the order of the themes (specification Spec) *)

\* the key the claim names: the order, 999 when the order is missing
KeyOfTheme(tid) ==
    IF barrierThemes[tid].order \in {NoOrder, EmptyOrder} THEN 999
    ELSE barrierThemes[tid].order

\* ascending by key; equal keys in input order (a theme's id is its position)
InClaimedOrder(ids) ==
    \A i, j \in 1..Len(ids) :
        i < j => \/ KeyOfTheme(ids[i]) < KeyOfTheme(ids[j])
                 \/ KeyOfTheme(ids[i]) = KeyOfTheme(ids[j]) /\ ids[i] < ids[j]

\* the inner segments follow the ring export's order, one after the other
RingExportOrdered ==
    Built =>
        /\ InClaimedOrder(themeIds)
        /\ Len(innerSegments) = Len(themeIds)
        /\ \A i \in 1..Len(innerSegments) : innerSegments[i].themeId = themeIds[i]
        /\ \A i \in 2..Len(innerSegments) : innerSegments[i - 1].a1 <= innerSegments[i].a0

\* C18: themes are laid out around the ring in ascending order; a theme whose
\* order is missing is treated as 999 and placed after every theme with a
\* smaller order, and themes with equal order keep their input order: in the
\* ring export (orderedThemes) and in the App's chart (THEMES).  (Violated by
\* the App, where an empty order sorts first.)
C18_ThemesInAscendingOrder ==
    /\ RingExportOrdered
    /\ appPc = "ready" => InClaimedOrder(THEMES)

\* what holds: the ring export alone
C18_RingExportInAscendingOrder == RingExportOrdered

\* the two renderers disagree on a dataset
C18_RenderersDisagree == pc = "done" /\ appPc = "ready" /\ THEMES # themeIds

----------------------------------------------------------------------------
(* Claims about the phases of the layout (specification Spec) *)

\* the themes whose outer segments do not all have the same base flip
MixedThemes ==
    {themeIds[i] : i \in {k \in 1..Len(themeIds) : ~allSame(segsOfTheme(themeIds[k]))}}

\* the data of the first phase is complete: one inner segment per theme, one
\* outer segment per barrier of a known theme, an override for exactly the
\* themes of mixed orientation
FirstPhaseComplete ==
    /\ Len(innerSegments) = Len(barrierThemes)
    /\ Len(outerSegments) =
          Cardinality({i \in 1..Len(barriers) : barriers[i].themeId \in 1..Len(barrierThemes)})
    /\ DOMAIN themeOrientationOverride = MixedThemes

\* the layout of an outer label has started
LabelPassStarted == Len(outerLabels) > 0

\* a step of the label pass lays out exactly the next segment, from that
\* segment and the override alone; the labels laid out before are not touched
\* and the data of the first phase does not change
LabelStepIsLocal ==
    (outerLabels' # outerLabels) =>
        /\ pc = "labels"
        /\ UNCHANGED <<innerSegments, outerSegments, themeOrientationOverride>>
        /\ Len(outerLabels') = Len(outerLabels) + 1
        /\ SubSeq(outerLabels', 1, Len(outerLabels)) = outerLabels
        /\ LET seg == outerSegments[Len(outerLabels')]
               flip == IF seg.themeId \in DOMAIN themeOrientationOverride
                       THEN themeOrientationOverride[seg.themeId]
                       ELSE seg.baseFlip
           IN  outerLabels'[Len(outerLabels')] =
                   [themeId |-> seg.themeId, finalFlip |-> flip,
                    rot |-> uprightRotationDegrees(seg.mid, flip)]

----------------------------------------------------------------------------
(* Claims about the exports (specification SpecExport) *)

UrlLive(i) == i <= Len(urls) /\ urls[i] = "live"
UrlRevoked(i) == i <= Len(urls) /\ urls[i] = "revoked"

\* C20: every object URL created by an export operation (downloadBlob for the
\* SVG export, and exportRaster) is eventually revoked, on the success path
\* and on every failure path (image load error, missing canvas context,
\* toBlob yielding null, an exception while triggering the download).
\* (Violated on the last path.)
C20_EveryUrlEventuallyRevoked ==
    \A i \in 1..MaxUrls : [](UrlLive(i) => <>UrlRevoked(i))

\* what holds: on the success path and on the failure paths that reject the
\* promise, the URL of exportRaster is revoked when the operation settles
C20_RevokedWhenSettled ==
    (epc \in {"done", "failed"}) => UrlRevoked(rasterUrl)

RasterFailures == {"imageError", "noContext", "toBlobNull", "tainted"}

\* C21: when a raster export fails (image load error, canvas context
\* unavailable, toBlob yielding no blob), exportRaster rejects exactly once to
\* its caller and triggers no download (downloadBlob has created no URL), and
\* nothing is left that keeps a later exportRaster from starting.
C21_FailureRejectsOnceNoDownload ==
    (eop.kind = "raster" /\ eop.outcome \in RasterFailures) =>
        /\ epc = "failed"
        /\ eop.rejections = 1
        /\ eop.downloads = 0
        /\ Len(urls) = rasterUrl
        /\ Len(urls) + 2 <= MaxUrls => ENABLED ExportRasterStart

\* a retry after a failed export has succeeded: resolved, one download
C21_Witness ==
    /\ eop.kind = "raster"
    /\ eop.retry
    /\ epc = "done"
    /\ eop.outcome = "downloaded"
    /\ eop.downloads = 1
    /\ eop.rejections = 0

\* each of the three failures of the claim is reached
C21_WitnessToBlobNull == epc = "failed" /\ eop.outcome = "toBlobNull"
C21_WitnessNoContextAfterLoad ==
    epc = "failed" /\ eop.outcome = "noContext" /\ eop.fmt = "png"
        /\ eop.background = "transparent"

----------------------------------------------------------------------------
(* Claims about the URL state (specification SpecUrl) *)

\* C22: URL state round-trips: for every query string x,
\* parseURLParams(generateURLParams(parseURLParams(x))) = parseURLParams(x).
C22_UrlStateRoundTrips == urlRt.done => urlRt.reparsed = urlRt.parsed

\* a state whose every part needs the encoding: a search text with an inner
\* space or a plus sign after trimming, or several personas
C22_Witness ==
    /\ urlRt.done
    /\ urlRt.parsed.search # OrEmpty(UrlGet(urlIn, "q"))
    /\ \E i \in 1..Len(urlRt.parsed.search) : urlRt.parsed.search[i] \in {" ", "+", ","}
    /\ urlRt.generated # urlIn

C22_WitnessPersonas ==
    /\ urlRt.done
    /\ Len(urlRt.parsed.personas) >= 1
    /\ Len(urlRt.parsed.personas) < Len(split(OrEmpty(UrlGet(urlIn, "personas")), ","))

----------------------------------------------------------------------------
(* Claims about the resource filter (specification SpecFilter) *)

\* the query of the call, trimmed and lower-cased
C25_Query ==
    LET t == trim(fIn.searchQuery) IN [i \in 1..Len(t) |-> lowerChar(t[i])]

\* text occurs in str at some position
C25_Contains(str, text) ==
    \E i \in 1..(Len(str) + 1) :
       /\ i + Len(text) - 1 <= Len(str)
       /\ \A k \in 1..Len(text) : lowerChar(str[i + k - 1]) = text[k]

\* the resource matches the text and the personas of the call
C25_Matches(r) ==
    /\ \/ C25_Query = <<>>
       \/ C25_Contains(r.title, C25_Query)
       \/ C25_Contains(r.description, C25_Query)
       \/ \E t \in 1..Len(r.tags) : C25_Contains(r.tags[t], C25_Query)
    /\ \/ fIn.selectedPersonas = <<>>
       \/ \E p \in 1..Len(r.personas) : \E s \in 1..Len(fIn.selectedPersonas) :
             r.personas[p] = fIn.selectedPersonas[s]

\* C25: filterResources(resources, query, personas) returns, in input order,
\* exactly the resources that match the text (the trimmed, lower-cased query is
\* empty or is contained in the title, the description or some tag,
\* case-insensitively) and match the personas (the selection is empty or the
\* resource has at least one selected persona).
C25_FilterReturnsExactlyTheMatches ==
    fOut.done => fOut.result = SelectSeq(fIn.resources, C25_Matches)

\* a call whose query needs trimming and lower-casing, with a selection, that
\* keeps the second resource and drops the first
C25_Witness ==
    /\ fOut.done
    /\ fIn.searchQuery = <<" ", "A", " ">>
    /\ fIn.selectedPersonas # <<>>
    /\ Len(fIn.resources) = 2
    /\ fOut.result = <<fIn.resources[2]>>
    /\ fIn.resources[1] # fIn.resources[2]

\* a call where the only match is by a tag written in upper case
C25_WitnessTag ==
    /\ fOut.done
    /\ fIn.searchQuery = <<"B", " ">>
    /\ Len(fIn.resources) = 2
    /\ Len(fOut.result) = 1
    /\ fOut.result[1].title = <<>>
    /\ fOut.result[1].tags # <<>>

----------------------------------------------------------------------------
(* Claims about the filter state of the App (specification SpecApp) *)

\* the mount effects and the re-render they cause have run, no event yet
C23_MountDone == uiPc = "settled" /\ hist.ev = "none"

\* C23: when the app is loaded with q, theme, barrier and personas in the
\* URL, then once the mount effects and the re-render they cause have run,
\* the filter state equals the state parsed from the original URL and the
\* browser URL encodes that same state, even though the URL-writing effect
\* also runs on mount with the initial empty state (which the state
\* "mounted" shows: the query string is gone and the updates are queued).
C23_StateRestoredFromUrl ==
    /\ C23_MountDone =>
          /\ uiState = parseURLParams(loadedUrl)
          /\ parseURLParams(location) = uiState
    /\ uiPc = "mounted" =>
          /\ location = <<>>
          /\ uiState = EmptyState
          /\ pendingUpd = parseURLParams(loadedUrl)

\* the app was loaded with all four parameters and has restored them
C23_Witness ==
    /\ C23_MountDone
    /\ UrlGet(loadedUrl, "q") # Null
    /\ UrlGet(loadedUrl, "theme") # Null
    /\ UrlGet(loadedUrl, "barrier") # Null
    /\ UrlGet(loadedUrl, "personas") # Null
    /\ search # <<>>
    /\ selectedTheme # Null
    /\ selectedBarrier # Null
    /\ Len(selectedPersonas) = 2
    /\ location # <<>>

\* C24: from every reachable filter state, clearAll sets search to the empty
\* string, selectedTheme and selectedBarrier to null and selectedPersonas to
\* the empty list, and once the URL-sync effect has run the browser URL has
\* no query string.
C24_ClearAllEmptiesStateAndUrl ==
    /\ uiPc = "settled" => ENABLED ClearAll
    /\ hist.ev = "clearAll" =>
          /\ uiState = EmptyState
          /\ uiPc \in {"rendered", "settled"}
          /\ uiPc = "rendered" => ENABLED UrlEffect
          /\ uiPc = "settled" => location = <<>>

\* clearAll was clicked with every filter set, and the sync effect has run
C24_Witness ==
    /\ hist.ev = "clearAll"
    /\ uiPc = "settled"
    /\ location = <<>>
    /\ uiState = EmptyState
    /\ UrlGet(loadedUrl, "q") # Null
    /\ UrlGet(loadedUrl, "personas") # Null

\* clearAll was clicked while the URL still had a query string
C24_WitnessBeforeSync ==
    /\ hist.ev = "clearAll"
    /\ uiPc = "rendered"
    /\ location # <<>>

\* the set of the elements of a list
C26_SetOf(list) == {list[i] : i \in 1..Len(list)}

\* C26: from every reachable selection (including one restored from the URL),
\* toggling the same persona twice in a row leaves the set of selected
\* personas, and therefore the filtered result list, unchanged.
C26_TogglePersonaTwiceIsIdentity ==
    hist.twice =>
       /\ C26_SetOf(selectedPersonas) = C26_SetOf(hist.personas0)
       /\ filtered(resources, uiState) = hist.filtered0

\* the same persona was toggled twice from a selection restored from the URL
\* with a duplicate: the list changed, the set and the results did not
C26_Witness ==
    /\ hist.twice
    /\ hist.personas0 = << <<"a">>, <<"a">> >>
    /\ selectedPersonas = << <<"a">> >>
    /\ Len(filtered(resources, uiState)) < Len(resources)

\* toggled off and on again: the order of the selection changed
C26_WitnessReordered ==
    /\ hist.twice
    /\ Len(hist.personas0) = 2
    /\ selectedPersonas # hist.personas0
    /\ hist.personas0[1] # hist.personas0[2]

\* C27 as the claim states it: in every reachable state of the app, after
\* the initial URL restoration and any sequence of toggleTheme,
\* toggleBarrier, togglePersona, search edits and clearAll, at most one of
\* selectedTheme and selectedBarrier is non-null.  The code breaks it when
\* the URL carries both theme and barrier.
C27_SingleSelection ==
    uiPc \in {"rendered", "settled"} => (selectedTheme = Null \/ selectedBarrier = Null)

\* what holds: the handlers establish single selection
C27_SingleSelectionAfterEvent ==
    hist.ev \in {"toggleTheme", "toggleBarrier", "clearAll"} =>
       (selectedTheme = Null \/ selectedBarrier = Null)

\* what holds: both are set only by a URL that carries both
C27_BothOnlyFromUrl ==
    (selectedTheme # Null /\ selectedBarrier # Null) =>
       /\ UrlGet(loadedUrl, "theme") # Null
       /\ UrlGet(loadedUrl, "barrier") # Null

----------------------------------------------------------------------------
(* Claims about the data of the interactive chart (specification SpecChart) *)

\* the sum of the outer-ring values of the barriers of theme id
C28_OuterSum(id) ==
    LET ofTheme(b) == b.themeId = id
    IN  sumValues(SelectSeq(chartData.barrierData, ofTheme))

\* C28 as the claim states it: for every search/persona filter state and
\* every theme, the value that sizes the theme's inner-ring slice equals the
\* sum of the values of that theme's barriers in the outer ring, so both
\* rings have the same total.  The code breaks it for a theme whose barriers
\* have no matching resource: its slice gets 0.0001, the barriers sum to 0.
C28_InnerValueIsSumOfBarriers ==
    chartData.done =>
       /\ \A i \in 1..Len(chartData.themeData) :
             chartData.themeData[i].value = C28_OuterSum(chartData.themeData[i].id)
       /\ sumValues(chartData.themeData) = sumValues(chartData.barrierData)

\* what holds: the values are equal for a theme with a matching resource, and
\* the slice is the epsilon otherwise
C28_InnerValueIsSumOrEpsilon ==
    chartData.done =>
       \A i \in 1..Len(chartData.themeData) :
          LET sum == C28_OuterSum(chartData.themeData[i].id)
          IN  chartData.themeData[i].value = IF sum > 0 THEN sum ELSE EPSILON

\* a search that leaves one theme with resources and one without
C28_WitnessEpsilon ==
    /\ chartData.done
    /\ Len(chartData.themeData) = 2
    /\ chartData.themeData[1].value >= VALUE_UNIT
    /\ chartData.themeData[2].value = EPSILON
    /\ Len(chartData.barrierData) = 2
    /\ search # <<>>

----------------------------------------------------------------------------
(* Claims about the service worker (specification SpecSW) *)

\* the answer the claim prefers for networkFirst when the network failed
C29_NetworkFirstPreferred ==
    IF lastFetch.hadRequest THEN FromCache(lastFetch.url)
    ELSE IF lastFetch.mode = "navigate" /\ lastFetch.hadIndex THEN FromCache("/index.html")
    ELSE IF lastFetch.hadOffline THEN FromCache("/offline.html")
    ELSE Offline503

\* the answer the claim prefers for cacheFirst when the network failed
C29_CacheFirstPreferred ==
    IF lastFetch.hadRequest THEN FromCache(lastFetch.url)
    ELSE IF lastFetch.hadOffline THEN FromCache("/offline.html")
    ELSE Offline503

\* C29: the service worker's fetch strategies always answer when the network
\* fetch fails and never reject: networkFirst resolves with, in this order
\* of preference, the cached match of the request, for a navigation request
\* the cached /index.html, the cached /offline.html, or a 503 response;
\* cacheFirst resolves with the cached match, else the cached /offline.html,
\* else a 503 response.
C29_StrategiesAnswerWhenNetworkFails ==
    /\ lastFetch.strategy \in {"networkFirst", "cacheFirst"} =>
          lastFetch.response.from \in {"network", "cache", "generated"}
    /\ (lastFetch.strategy = "networkFirst" /\ lastFetch.networkFailed) =>
          lastFetch.response = C29_NetworkFirstPreferred
    /\ (lastFetch.strategy = "cacheFirst" /\ lastFetch.networkFailed) =>
          lastFetch.response = C29_CacheFirstPreferred

\* offline, a navigation that is not cached is answered with the cached
\* /index.html although /offline.html is cached too
C29_Witness ==
    /\ lastFetch.strategy = "networkFirst"
    /\ lastFetch.networkFailed
    /\ ~lastFetch.hadRequest
    /\ lastFetch.mode = "navigate"
    /\ lastFetch.hadIndex
    /\ lastFetch.hadOffline
    /\ lastFetch.response = FromCache("/index.html")

\* offline, cacheFirst without a match answers with the cached /offline.html
C29_WitnessCacheFirstOffline ==
    /\ lastFetch.strategy = "cacheFirst"
    /\ lastFetch.networkFailed
    /\ ~lastFetch.hadRequest
    /\ lastFetch.response = FromCache("/offline.html")

\* offline, nothing cached: the 503 response
C29_Witness503 ==
    /\ lastFetch.strategy = "cacheFirst"
    /\ lastFetch.networkFailed
    /\ lastFetch.response = Offline503

\* the case of C30: install has precached, the network is unavailable, the
\* request is a same-origin navigation to a URL never fetched before
C30_Case ==
    /\ lastFetch.precached
    /\ lastFetch.networkFailed
    /\ lastFetch.mode = "navigate"
    /\ lastFetch.strategy = "networkFirst"
    /\ ~lastFetch.fetchedBefore

\* C30 as the claim states it: after the install step has precached '/' and
\* '/index.html', a same-origin navigation request made while the network is
\* unavailable and whose URL was never fetched before is answered with the
\* precached index.html, not with the 503 offline response.  The strategies
\* look in the runtime cache only, which install does not fill.
C30_OfflineNavigationGetsIndex ==
    C30_Case =>
       /\ lastFetch.response = FromCache("/index.html")
       /\ lastFetch.response.status # 503

\* what holds: in that case the index page is served only if an earlier
\* online fetch of /index.html put it in the runtime cache; the precache is
\* never read
C30_IndexOnlyFromRuntimeCache ==
    C30_Case =>
       lastFetch.response =
          IF lastFetch.hadIndex THEN FromCache("/index.html")
          ELSE IF lastFetch.hadOffline THEN FromCache("/offline.html")
          ELSE Offline503

\* the first navigation to / after an online install, offline: 503
C30_Witness503 ==
    /\ C30_Case
    /\ lastFetch.url = "/"
    /\ everFetched = {"/"}
    /\ lastFetch.response = Offline503

=============================================================================
